---- MODULE Spec2Model ----
(***************************************************************************)
(* Hybrid local/remote storage and synchronisation engine of FIRM AI       *)
(* (src-tauri/src/db.rs, sync.rs and the domain services).                 *)
(*                                                                         *)
(* Every `.await` of the Rust code is a point where another task may run,  *)
(* so every remote call and every unit of work against SQLite is a step of *)
(* its own.  Row content is abstracted to a version number `ver`, a        *)
(* timestamp to a counter.                                                 *)
(***************************************************************************)
EXTENDS Integers, Sequences, FiniteSets, TLC

\* ---------------------------------------------------------------- bounds
MaxLoad == 2        \* calls of the creating services, update_progress and queue_operation in Spec
MutexLoad == 1      \* the same in SpecMutex
MutexSync == 1      \* successful cycles in SpecMutex
MaxSync == 1        \* successful cycles in Spec (value of last_sync)
DrainOps == 2       \* sync_queue entries in SpecDrain
DrainSync == 6      \* successful cycles in SpecDrain
BatchOps == 3       \* sync_queue entries in SpecBatch
BatchSync == 1      \* successful cycles in SpecBatch
DeleteLoad == 1     \* calls of create_set in SpecDelete
DeleteSync == 1     \* successful cycles in SpecDelete
ProbeOps == 1       \* sync_queue entries in SpecProbe
ProbeSync == 1      \* successful cycles in SpecProbe
LocalLoad == 2      \* calls that add a row, a row version or a queue entry in SpecLocal
FrameLoad == 2      \* calls of create_plan, update_progress and queue_operation in SpecFrame
FrameSync == 1      \* successful cycles in SpecFrame
GuardLoad == 1      \* calls of create_set in SpecGuard
GuardSync == 1      \* successful cycles in SpecGuard
EarlySync == 1      \* successful cycles in SpecEarly
StoreOps == 1       \* sync_queue entries in SpecStore
StoreRows == 1      \* rows written in SpecStore
QueueOps == 2       \* sync_queue entries in SpecQueue
QueueSync == 1      \* successful cycles in SpecQueue
StatusOps == 2      \* sync_queue entries in SpecStatus
StatusSync == 5     \* successful cycles in SpecStatus
ProgressOps == 51   \* sync_queue entries in SpecProgress
ProgressSync == 10  \* successful cycles in SpecProgress
MaxText == 3        \* characters of the text handed to semantic_chunk in SpecChunk
CloneSync == 2      \* successful cycles in SpecClone

\* ------------------------------------------------------ program constants
MaxAttempts == 5    \* "WHERE attempts < 5"
BatchLimit == 50    \* "LIMIT 50"
DirtyLimit == 20    \* "LIMIT 20"
WordsPerChunk == 500 \* "let words_per_chunk = 500"

Tables == <<"cases", "flashcard_sets", "flashcards", "mock_tests", "test_results", "study_plans">>

TableNames == {Tables[i] : i \in 1..Len(Tables)}

\* The uuids of the rows: the n-th Uuid::new_v4() is n.
RowIds == 1..MaxLoad

Callers == {"scheduler", "manual"}

\* What a remote call can end in: a 2xx response, a response with another
\* status, or no response at all (transport error).
Responses == {"success", "rejected", "unreachable"}

VARIABLES
    supabase,     \* HybridStorage.supabase is Some (AppConfig.supabase_url and supabase_key are)
    offline_mode, \* AppConfig.offline_mode
    reachable,    \* the remote store can be reached over the network
    connection,   \* SqliteCache.connection is Some
    online,       \* HybridStorage.online
    is_syncing,   \* SyncManager.is_syncing
    last_sync,    \* SyncManager.last_sync: 0 is None, n > 0 the n-th timestamp
    sync_queue,   \* table sync_queue, in rowid order
    queue_seq,    \* sqlite_sequence of sync_queue (last AUTOINCREMENT id) and the last datetime('now') stored
    rows,         \* the rows of the syncable tables, by id
    remote,       \* the remote store: table -> id -> content version (0: no row)
    cycle,        \* per caller of sync_now: position and locals
    req,          \* the domain service call in progress
    stat,         \* the get_status call in progress
    work,         \* the units of work handed to SqliteCache::execute, step by step
    doc,          \* the call of DocumentProcessor::semantic_chunk: its arguments and its result
    cells,        \* the values behind the Arc handles, by address
    holders       \* the HybridStorage and SyncManager values in existence: the addresses in their fields

vars == <<doc, cells, holders, supabase, offline_mode, reachable, work, connection, online, is_syncing, last_sync, sync_queue, queue_seq, rows, remote, cycle, req, stat>>

\* ---------------------------------------------------------------- helpers
Min(a, b) == IF a < b THEN a ELSE b

Take(s, n) == SubSeq(s, 1, Min(n, Len(s)))

NoRow == [table |-> "none", ver |-> 0, synced |-> 0, dirty |-> 0]

IdleCycle == [pc |-> "idle", result |-> "none", operations |-> <<>>, next |-> 0,
              response |-> "none", outcome |-> "none", results |-> <<>>, table |-> 0,
              dirty_records |-> <<>>, uploaded |-> {}]

\* No domain call in progress.  uuids counts the Uuid::new_v4() values drawn so
\* far (the n-th one is n), updates the calls of update_progress.
\* sent records that the remote write was made and returned Ok (the code keeps no
\* such flag).
IdleReq == [pc |-> "idle", op |-> "none", id |-> 0, ver |-> 0, synced |-> 0, sent |-> FALSE,
            result |-> "none", uuids |-> 0, updates |-> 0]

Reset(r) == [IdleReq EXCEPT !.uuids = r.uuids, !.updates = r.updates]

\* The calls made so far that add a row, a row version or a queue entry
Load == req.uuids + req.updates + queue_seq.id

\* The callers of SqliteCache::execute followed step by step: the scheduler's
\* cycle (remove_from_queue), get_status, queue_operation and a domain write
\* (create_set).
Units == {"remove_from_queue", "get_status", "queue_operation", "create_set"}

\* guard is the holder of the tokio Mutex SqliteCache.connection; early records
\* that the caller handed its unit of work over while the connection was
\* still unset (the code keeps no such record).
IdleWork == [guard |-> "none", pc |-> [u \in Units |-> "idle"], result |-> [u \in Units |-> "none"],
             early |-> [u \in Units |-> FALSE]]

\* No get_status call in progress.  Between the reads of is_syncing and of
\* last_sync, seen records the value last_sync had when the call read
\* is_syncing = true (the code keeps no such record).
IdleStat == [pc |-> "idle", is_syncing |-> FALSE, last_sync |-> 0, is_online |-> FALSE,
             pending_operations |-> 0, result |-> "none", seen |-> 0]

\* ---------------------------------------------------------- remote store
\* execute() taken as failed unless the response is a 2xx
ExecuteIsOk_checked(resp) == resp = "success"

\* postgrest Builder::execute() yields Err only when no response arrives; a
\* response of any status is Ok(response).  The callers map Err with map_err
\* and `?`, and never look at the status.
ExecuteIsOk(resp) == resp # "unreachable"

\* What a call made now can end in: nothing but a transport error while the
\* remote store cannot be reached.
Answers == IF reachable THEN Responses ELSE {"unreachable"}

\* SupabaseClient::insert is a plain insert (no on-conflict resolution): the
\* remote row is created when the id is free, and an existing id is rejected.
InsertResponses(t, id) == IF remote[t][id] # 0 THEN Answers \ {"success"} ELSE Answers

RemoteInsert(t, id, ver, resp) ==
    IF resp = "success" THEN [remote EXCEPT ![t][id] = ver] ELSE remote

\* SupabaseClient::update(...).eq("id", id): changes the rows that match.
RemoteUpdate(t, id, ver, resp) ==
    IF resp = "success" /\ remote[t][id] # 0 THEN [remote EXCEPT ![t][id] = ver] ELSE remote

\* SupabaseClient::delete(...).eq("id", id)
RemoteDelete(t, id, resp) ==
    IF resp = "success" THEN [remote EXCEPT ![t][id] = 0] ELSE remote

\* ------------------------------------------------------------------ handles
\* The holders of a HybridStorage (AppState.storage and the copies the
\* services are made with) and of a SyncManager.
Storages == {"AppState", "FlashcardService", "StudyPlanService"}

Managers == {"SyncManager", "SyncManager.clone"}

NoHolder == [connection |-> 0, online |-> 0, is_syncing |-> 0, last_sync |-> 0, pc |-> "none"]

\* SqliteCache::new: Arc::new(Mutex::new(None)) at address 1; HybridStorage::new:
\* Arc::new(Mutex::new(false)) at address 2; SyncManager::new:
\* Arc::new(Mutex::new(false)) at address 3 and Arc::new(Mutex::new(None)) at
\* address 4.
NewCells == <<FALSE, FALSE, FALSE, 0>>

\* AppState::new: the storage, and the sync manager made with an Arc of it.
NewHolders ==
    [h \in Storages \cup Managers |->
        CASE h = "AppState" -> [NoHolder EXCEPT !.connection = 1, !.online = 2, !.pc = "idle"]
          [] h = "SyncManager" -> [connection |-> 1, online |-> 2, is_syncing |-> 3, last_sync |-> 4, pc |-> "idle"]
          [] OTHER -> NoHolder]

\* No call of semantic_chunk
IdleDoc == [pc |-> "idle", text |-> <<>>, overlap_words |-> 0, result |-> [ok |-> FALSE, chunks |-> <<>>]]

\* ------------------------------------------------------------ construction
\* HybridStorage::new, SqliteCache::new, SyncManager::new: the new storage and
\* sync manager, whatever the configuration and the network
NewState ==
    /\ connection = FALSE
    /\ work = IdleWork
    /\ online = FALSE
    /\ is_syncing = FALSE
    /\ last_sync = 0
    /\ sync_queue = <<>>
    /\ queue_seq = [id |-> 0, at |-> 0]
    /\ rows = [r \in RowIds |-> NoRow]
    /\ remote = [t \in TableNames |-> [r \in RowIds |-> 0]]
    /\ cycle = [p \in Callers |-> IdleCycle]
    /\ req = IdleReq
    /\ stat = IdleStat

\* ... with no call of semantic_chunk, and with the handles left out: the
\* variables above stand for the one value every holder shares.
New == NewState /\ doc = IdleDoc /\ cells = <<>> /\ holders = <<>>

\* Started with or without credentials (HybridStorage::new makes the client
\* from supabase_url and supabase_key), OFFLINE_MODE=false, the remote store in
\* reach.  No definition below reads offline_mode: AppConfig::validate is its
\* only reader in the code.
Init ==
    /\ supabase \in BOOLEAN
    /\ offline_mode = FALSE
    /\ reachable = TRUE
    /\ New

\* The network comes or goes.
network(b) ==
    /\ reachable' = b
    /\ UNCHANGED <<doc, cells, holders, supabase, offline_mode, work, connection, online, is_syncing, last_sync, sync_queue, queue_seq, rows, remote, cycle, req, stat>>

\* check_online answering true without looking for a client
check_online_always == TRUE

\* HybridStorage::check_online: SupabaseClient::select only builds the query
\* and returns Ok, nothing is sent.
check_online == supabase

\* HybridStorage::initialize; SqliteCache::initialize holds the lock of
\* SqliteCache.connection while it opens the database.
initialize ==
    /\ ~connection
    /\ work.guard = "none"
    /\ connection' = TRUE
    /\ online' = IF supabase THEN check_online ELSE online
    /\ UNCHANGED <<doc, cells, holders, supabase, offline_mode, reachable, work, is_syncing, last_sync, sync_queue, queue_seq, rows, remote, cycle, req, stat>>

\* HybridStorage::set_online
set_online(b) ==
    /\ online' = b
    /\ UNCHANGED <<doc, cells, holders, supabase, offline_mode, reachable, work, connection, is_syncing, last_sync, sync_queue, queue_seq, rows, remote, cycle, req, stat>>

\* ------------------------------------------------------------- sync queue
\* queue_operation refusing while the connectivity flag is off
queue_operation_online_only(operation_type, table_name, record_id, data, now) ==
    IF connection /\ online
    THEN /\ sync_queue' = Append(sync_queue,
                [id |-> queue_seq.id + 1, operation_type |-> operation_type,
                 table_name |-> table_name, record_id |-> record_id, data |-> data,
                 created_at |-> now, attempts |-> 0])
         /\ queue_seq' = [id |-> queue_seq.id + 1, at |-> now]
         /\ UNCHANGED <<doc, cells, holders, supabase, offline_mode, reachable, work, connection, online, is_syncing, last_sync, rows, remote, cycle, req, stat>>
    ELSE UNCHANGED vars

\* SyncManager::queue_operation: INSERT INTO sync_queue (..., created_at,
\* attempts) VALUES (..., datetime('now'), 0).  `now` is the second the insert
\* happens in: the second of the previous insert or a later one.
queue_operation(operation_type, table_name, record_id, data, now) ==
    IF connection
    THEN /\ sync_queue' = Append(sync_queue,
                [id |-> queue_seq.id + 1, operation_type |-> operation_type,
                 table_name |-> table_name, record_id |-> record_id, data |-> data,
                 created_at |-> now, attempts |-> 0])
         /\ queue_seq' = [id |-> queue_seq.id + 1, at |-> now]
         /\ UNCHANGED <<doc, cells, holders, supabase, offline_mode, reachable, work, connection, online, is_syncing, last_sync, rows, remote, cycle, req, stat>>
    ELSE UNCHANGED vars

\* The orders "ORDER BY created_at ASC" may return the entries of S in: SQLite
\* leaves the order of rows with equal created_at open.
OrderedByCreatedAt(S) ==
    LET RECURSIVE Orders(_)
        Orders(R) ==
            IF R = {} THEN {<<>>}
            ELSE LET first == {e \in R : \A f \in R : e.created_at <= f.created_at}
                 IN  UNION {{<<e>> \o s : s \in Orders(R \ {e})} : e \in first}
    IN  Orders(S)

\* The query with "WHERE attempts <= 5"
QueuedOperations_inclusive ==
    LET eligible == {sync_queue[i] : i \in {k \in DOMAIN sync_queue : sync_queue[k].attempts <= MaxAttempts}}
    IN  {Take(s, BatchLimit) : s \in OrderedByCreatedAt(eligible)}

\* The query without "WHERE attempts < 5"
QueuedOperations_unfiltered ==
    LET eligible == {sync_queue[i] : i \in DOMAIN sync_queue}
    IN  {Take(s, BatchLimit) : s \in OrderedByCreatedAt(eligible)}

\* The query of SyncManager::get_queued_operations
QueuedOperations ==
    LET eligible == {sync_queue[i] : i \in {k \in DOMAIN sync_queue : sync_queue[k].attempts < MaxAttempts}}
    IN  {Take(s, BatchLimit) : s \in OrderedByCreatedAt(eligible)}

\* SyncManager::remove_from_queue
remove_from_queue(q, operation_id) == SelectSeq(q, LAMBDA e : e.id # operation_id)

\* "UPDATE sync_queue SET attempts = attempts + 1" without the WHERE clause
increment_sync_attempts_all(q, operation_id) ==
    [i \in DOMAIN q |-> [q[i] EXCEPT !.attempts = @ + 1]]

\* SyncManager::increment_sync_attempts
increment_sync_attempts(q, operation_id) ==
    [i \in DOMAIN q |-> IF q[i].id = operation_id THEN [q[i] EXCEPT !.attempts = @ + 1] ELSE q[i]]

\* ------------------------------------------------------------- sync cycle
\* cycle[p] holds the position of caller p and the locals of its sync_now:
\*   operations, next   the Vec of get_queued_operations and the position of
\*                      the loop of process_sync_queue in it
\*   response           what the last execute() of the queue drain or of the
\*                      sweep got from the remote store ("none" when no call
\*                      was made)
\*   outcome            the result of execute_sync_operation being matched
\*   table              the position of the loop of sync_dirty_records
\*   dirty_records      the records of sync_dirty_table still to upload
\* and, as a record of what the cycle did (kept until the caller has the
\* result; the code keeps none):
\*   results            the result of execute_sync_operation per operation
\*   uploaded           the records whose upload returned Ok, each with the
\*                      response the upload got

\* Leaving perform_sync with `result`: back in sync_now, before "Update status".
Finish(p, result) ==
    [cycle EXCEPT ![p].pc = "finish", ![p].result = result, ![p].outcome = "none",
                  ![p].response = "none", ![p].table = 0, ![p].dirty_records = <<>>]

\* sync_now taking the flag without looking at it
sync_now_unchecked(p) ==
    /\ cycle[p].pc = IF p = "scheduler" THEN "call" ELSE "idle"
    /\ is_syncing' = TRUE
    /\ cycle' = [cycle EXCEPT ![p] = [IdleCycle EXCEPT !.pc = "perform"]]
    /\ UNCHANGED <<doc, cells, holders, supabase, offline_mode, reachable, work, connection, online, last_sync, sync_queue, queue_seq, rows, remote, req, stat>>

\* SyncManager::sync_now, first critical section
sync_now(p) ==
    /\ cycle[p].pc = IF p = "scheduler" THEN "call" ELSE "idle"
    /\ IF is_syncing
       THEN /\ cycle' = [cycle EXCEPT ![p] = [IdleCycle EXCEPT !.pc = "returned", !.result = "AlreadySyncing"]]
            /\ UNCHANGED is_syncing
       ELSE /\ is_syncing' = TRUE
            /\ cycle' = [cycle EXCEPT ![p] = [IdleCycle EXCEPT !.pc = "perform"]]
    /\ UNCHANGED <<doc, cells, holders, supabase, offline_mode, reachable, work, connection, online, last_sync, sync_queue, queue_seq, rows, remote, req, stat>>

\* perform_sync going on to the queue whatever the connectivity flag says
perform_sync_unchecked(p) ==
    /\ cycle[p].pc = "perform"
    /\ cycle' = [cycle EXCEPT ![p].pc = "fetch"]
    /\ UNCHANGED <<doc, cells, holders, supabase, offline_mode, reachable, work, connection, online, is_syncing, last_sync, sync_queue, queue_seq, rows, remote, req, stat>>

\* SyncManager::perform_sync, the connectivity check
perform_sync(p) ==
    /\ cycle[p].pc = "perform"
    /\ cycle' = IF ~online THEN Finish(p, "Offline")
                ELSE [cycle EXCEPT ![p].pc = "fetch"]
    /\ UNCHANGED <<doc, cells, holders, supabase, offline_mode, reachable, work, connection, online, is_syncing, last_sync, sync_queue, queue_seq, rows, remote, req, stat>>

\* After the queue loop: sync_dirty_records starts with the first table.
StartSweep(c) == [c EXCEPT !.pc = "sweep", !.table = 1, !.outcome = "none", !.response = "none"]

\* SyncManager::get_queued_operations, called by process_sync_queue
get_queued_operations(p) ==
    /\ cycle[p].pc = "fetch"
    /\ IF ~connection
       THEN cycle' = Finish(p, "Database")
       ELSE \E operations \in QueuedOperations :
                cycle' = [cycle EXCEPT ![p] =
                            IF operations = <<>> THEN StartSweep(@)
                            ELSE [@ EXCEPT !.pc = "drain", !.operations = operations, !.next = 1]]
    /\ UNCHANGED <<doc, cells, holders, supabase, offline_mode, reachable, work, connection, online, is_syncing, last_sync, sync_queue, queue_seq, rows, remote, req, stat>>

\* execute_sync_operation sending every operation of another type as an insert
execute_sync_operation_any(p) ==
    /\ cycle[p].pc = "drain"
    /\ LET operation == cycle[p].operations[cycle[p].next]
           t == operation.table_name
           id == operation.record_id
       IN  IF ~supabase
           THEN /\ cycle' = [cycle EXCEPT ![p].pc = "ack", ![p].outcome = "Err", ![p].response = "none"]
                /\ UNCHANGED remote
           ELSE \E resp \in IF operation.operation_type \notin {"update", "delete"} THEN InsertResponses(t, id) ELSE Answers :
                /\ remote' = CASE operation.operation_type \notin {"update", "delete"} -> RemoteInsert(t, id, operation.data, resp)
                               [] operation.operation_type = "update" -> RemoteUpdate(t, id, operation.data, resp)
                               [] operation.operation_type = "delete" -> RemoteDelete(t, id, resp)
                /\ cycle' = [cycle EXCEPT ![p].pc = "ack", ![p].response = resp,
                                          ![p].outcome = IF ExecuteIsOk(resp) THEN "Ok" ELSE "Err"]
    /\ UNCHANGED <<doc, cells, holders, supabase, offline_mode, reachable, work, connection, online, is_syncing, last_sync, sync_queue, queue_seq, rows, req, stat>>

\* SyncManager::execute_sync_operation on the operation the loop is at
execute_sync_operation(p) ==
    /\ cycle[p].pc = "drain"
    /\ LET operation == cycle[p].operations[cycle[p].next]
           t == operation.table_name
           id == operation.record_id
       IN  IF ~supabase \/ operation.operation_type \notin {"insert", "update", "delete"}
           THEN /\ cycle' = [cycle EXCEPT ![p].pc = "ack", ![p].outcome = "Err", ![p].response = "none"]
                /\ UNCHANGED remote
           ELSE \E resp \in IF operation.operation_type = "insert" THEN InsertResponses(t, id) ELSE Answers :
                /\ remote' = CASE operation.operation_type = "insert" -> RemoteInsert(t, id, operation.data, resp)
                               [] operation.operation_type = "update" -> RemoteUpdate(t, id, operation.data, resp)
                               [] operation.operation_type = "delete" -> RemoteDelete(t, id, resp)
                /\ cycle' = [cycle EXCEPT ![p].pc = "ack", ![p].response = resp,
                                          ![p].outcome = IF ExecuteIsOk(resp) THEN "Ok" ELSE "Err"]
    /\ UNCHANGED <<doc, cells, holders, supabase, offline_mode, reachable, work, connection, online, is_syncing, last_sync, sync_queue, queue_seq, rows, req, stat>>

\* process_sync_queue leaving the loop at the first Err (`?` on the result of
\* execute_sync_operation)
process_sync_queue_abort(p) ==
    /\ cycle[p].pc = "ack"
    /\ LET operation == cycle[p].operations[cycle[p].next]
       IN  IF ~connection
           THEN /\ cycle' = Finish(p, "Database")
                /\ UNCHANGED sync_queue
           ELSE IF cycle[p].outcome = "Err"
           THEN /\ cycle' = [Finish(p, "Sync") EXCEPT ![p].results = Append(@, "Err")]
                /\ UNCHANGED sync_queue
           ELSE /\ sync_queue' = remove_from_queue(sync_queue, operation.id)
                /\ cycle' = [cycle EXCEPT ![p] =
                            LET c == [@ EXCEPT !.results = Append(@, cycle[p].outcome)]
                            IN  IF cycle[p].next = Len(cycle[p].operations) THEN StartSweep(c)
                                ELSE [c EXCEPT !.pc = "drain", !.next = @ + 1, !.outcome = "none",
                                               !.response = "none"]]
    /\ UNCHANGED <<doc, cells, holders, supabase, offline_mode, reachable, work, connection, online, is_syncing, last_sync, queue_seq, rows, remote, req, stat>>

\* SyncManager::process_sync_queue, the match on the result: remove the entry
\* or count the attempt, then go on with the next operation.
process_sync_queue(p) ==
    /\ cycle[p].pc = "ack"
    /\ LET operation == cycle[p].operations[cycle[p].next]
       IN  IF ~connection
           THEN /\ cycle' = Finish(p, "Database")
                /\ UNCHANGED sync_queue
           ELSE /\ sync_queue' = IF cycle[p].outcome = "Ok"
                                 THEN remove_from_queue(sync_queue, operation.id)
                                 ELSE increment_sync_attempts(sync_queue, operation.id)
                /\ cycle' = [cycle EXCEPT ![p] =
                            LET c == [@ EXCEPT !.results = Append(@, cycle[p].outcome)]
                            IN  IF cycle[p].next = Len(cycle[p].operations) THEN StartSweep(c)
                                ELSE [c EXCEPT !.pc = "drain", !.next = @ + 1, !.outcome = "none",
                                               !.response = "none"]]
    /\ UNCHANGED <<doc, cells, holders, supabase, offline_mode, reachable, work, connection, online, is_syncing, last_sync, queue_seq, rows, remote, req, stat>>

\* The payload of a dirty row: every column but synced and dirty.
Payload(id) == [id |-> id, ver |-> rows[id].ver]

\* "SELECT * FROM <table> WHERE dirty = 1 AND synced = 1 LIMIT 20"
DirtyRecords_synced_only(t) ==
    LET RECURSIVE Scan(_)
        Scan(id) == IF id \notin RowIds THEN <<>>
                    ELSE (IF rows[id].table = t /\ rows[id].dirty = 1 /\ rows[id].synced = 1
                          THEN <<Payload(id)>> ELSE <<>>)
                         \o Scan(id + 1)
    IN  Take(Scan(1), DirtyLimit)

\* "SELECT * FROM <table> WHERE dirty = 1 LIMIT 20", rows in rowid order
DirtyRecords(t) ==
    LET RECURSIVE Scan(_)
        Scan(id) == IF id \notin RowIds THEN <<>>
                    ELSE (IF rows[id].table = t /\ rows[id].dirty = 1 THEN <<Payload(id)>> ELSE <<>>)
                         \o Scan(id + 1)
    IN  Take(Scan(1), DirtyLimit)

\* sync_dirty_records: the next table of the list, or the end of perform_sync.
NextTable(p, c) ==
    IF c.table = Len(Tables) THEN Finish(p, "Ok")
    ELSE [cycle EXCEPT ![p] = [c EXCEPT !.pc = "sweep", !.table = @ + 1, !.dirty_records = <<>>]]

\* SyncManager::sync_dirty_table, up to the read of the dirty rows
sync_dirty_table(p) ==
    /\ cycle[p].pc = "sweep"
    /\ cycle' = IF ~supabase THEN Finish(p, "Internal")
                ELSE IF ~connection THEN Finish(p, "Database")
                ELSE LET dirty_records == DirtyRecords(Tables[cycle[p].table])
                     IN  IF dirty_records = <<>> THEN NextTable(p, cycle[p])
                         ELSE [cycle EXCEPT ![p].pc = "upsert", ![p].dirty_records = dirty_records]
    /\ UNCHANGED <<doc, cells, holders, supabase, offline_mode, reachable, work, connection, online, is_syncing, last_sync, sync_queue, queue_seq, rows, remote, req, stat>>

\* sync_dirty_table, the upload of the first record left; an Err leaves the
\* cycle (`?`)
upsert(p) ==
    /\ cycle[p].pc = "upsert"
    /\ LET record == Head(cycle[p].dirty_records)
           t == Tables[cycle[p].table]
       IN  \E resp \in InsertResponses(t, record.id) :
            /\ remote' = RemoteInsert(t, record.id, record.ver, resp)
            /\ cycle' = IF ExecuteIsOk(resp)
                        THEN [cycle EXCEPT ![p].pc = "mark", ![p].response = resp,
                                           ![p].uploaded = @ \cup {[id |-> record.id, ver |-> record.ver,
                                                                    resp |-> resp]}]
                        ELSE [Finish(p, "Sync") EXCEPT ![p].response = resp]
    /\ UNCHANGED <<doc, cells, holders, supabase, offline_mode, reachable, work, connection, online, is_syncing, last_sync, sync_queue, queue_seq, rows, req, stat>>

\* "UPDATE <table> SET dirty = 0 WHERE id = ?1"
MarkSynced_dirty_only(t, id) ==
    IF rows[id].table = t THEN [rows EXCEPT ![id].dirty = 0] ELSE rows

\* "UPDATE <table> SET synced = 1, dirty = 0 WHERE id = ?1"
MarkSynced(t, id) ==
    IF rows[id].table = t THEN [rows EXCEPT ![id].synced = 1, ![id].dirty = 0] ELSE rows

\* sync_dirty_table, "Mark as synced locally", then the next record
mark_synced(p) ==
    /\ cycle[p].pc = "mark"
    /\ LET record == Head(cycle[p].dirty_records)
           rest == Tail(cycle[p].dirty_records)
       IN  IF ~connection
           THEN /\ cycle' = Finish(p, "Database")
                /\ UNCHANGED rows
           ELSE /\ rows' = MarkSynced(Tables[cycle[p].table], record.id)
                /\ cycle' = IF rest = <<>> THEN NextTable(p, cycle[p])
                            ELSE [cycle EXCEPT ![p].pc = "upsert", ![p].dirty_records = rest]
    /\ UNCHANGED <<doc, cells, holders, supabase, offline_mode, reachable, work, connection, online, is_syncing, last_sync, sync_queue, queue_seq, remote, req, stat>>

\* sync_now leaving with its error before "Update status" (as `?` on
\* perform_sync would)
sync_now_end_early(p) ==
    /\ cycle[p].pc = "finish"
    /\ is_syncing' = IF cycle[p].result = "Ok" THEN FALSE ELSE is_syncing
    /\ last_sync' = IF cycle[p].result = "Ok" THEN last_sync + 1 ELSE last_sync
    /\ cycle' = [cycle EXCEPT ![p].pc = "returned"]
    /\ UNCHANGED <<doc, cells, holders, supabase, offline_mode, reachable, work, connection, online, sync_queue, queue_seq, rows, remote, req, stat>>

\* "Update status" writing last_sync whatever the result
sync_now_end_always(p) ==
    /\ cycle[p].pc = "finish"
    /\ is_syncing' = FALSE
    /\ last_sync' = last_sync + 1
    /\ cycle' = [cycle EXCEPT ![p].pc = "returned"]
    /\ UNCHANGED <<doc, cells, holders, supabase, offline_mode, reachable, work, connection, online, sync_queue, queue_seq, rows, remote, req, stat>>

\* SyncManager::sync_now, "Update status": Utc::now() is later than every
\* timestamp stored before.
sync_now_end(p) ==
    /\ cycle[p].pc = "finish"
    /\ is_syncing' = FALSE
    /\ last_sync' = IF cycle[p].result = "Ok" THEN last_sync + 1 ELSE last_sync
    /\ cycle' = [cycle EXCEPT ![p].pc = "returned"]
    /\ UNCHANGED <<doc, cells, holders, supabase, offline_mode, reachable, work, connection, online, sync_queue, queue_seq, rows, remote, req, stat>>

\* The caller has the result of sync_now: start_periodic_sync prints an Err and
\* waits for the next tick, a manual caller is done.
returned(p) ==
    /\ cycle[p].pc = "returned"
    /\ cycle' = [cycle EXCEPT ![p] = IdleCycle]
    /\ UNCHANGED <<doc, cells, holders, supabase, offline_mode, reachable, work, connection, online, is_syncing, last_sync, sync_queue, queue_seq, rows, remote, req, stat>>

\* SyncManager::start_periodic_sync, one tick: the cached status
tick(p) ==
    /\ p = "scheduler"
    /\ cycle[p].pc = "idle"
    /\ cycle' = [cycle EXCEPT ![p].pc = IF online THEN "call" ELSE "reconnect"]
    /\ UNCHANGED <<doc, cells, holders, supabase, offline_mode, reachable, work, connection, online, is_syncing, last_sync, sync_queue, queue_seq, rows, remote, req, stat>>

\* The tick going on to sync_now whatever the probe said
reconnect_no_skip(p) ==
    /\ cycle[p].pc = "reconnect"
    /\ online' = check_online
    /\ cycle' = [cycle EXCEPT ![p].pc = "call"]
    /\ UNCHANGED <<doc, cells, holders, supabase, offline_mode, reachable, work, connection, is_syncing, last_sync, sync_queue, queue_seq, rows, remote, req, stat>>

\* start_periodic_sync, "Try to reconnect"
reconnect(p) ==
    /\ cycle[p].pc = "reconnect"
    /\ LET new_status == check_online
       IN  /\ online' = new_status
           /\ cycle' = [cycle EXCEPT ![p].pc = IF new_status THEN "call" ELSE "idle"]
    /\ UNCHANGED <<doc, cells, holders, supabase, offline_mode, reachable, work, connection, is_syncing, last_sync, sync_queue, queue_seq, rows, remote, req, stat>>

\* The steps of a cycle when no table has a dirty row
QueueCycle(p) ==
    \/ perform_sync(p)
    \/ get_queued_operations(p)
    \/ execute_sync_operation(p)
    \/ process_sync_queue(p)
    \/ sync_dirty_table(p)
    \/ sync_now_end(p)
    \/ returned(p)

\* The steps of a cycle when the queue is empty
SweepCycle(p) ==
    \/ perform_sync(p)
    \/ get_queued_operations(p)
    \/ sync_dirty_table(p)
    \/ upsert(p)
    \/ mark_synced(p)
    \/ sync_now_end(p)
    \/ returned(p)

\* The steps of a cycle once sync_now has taken the flag
Cycle(p) ==
    \/ perform_sync(p)
    \/ get_queued_operations(p)
    \/ execute_sync_operation(p)
    \/ process_sync_queue(p)
    \/ sync_dirty_table(p)
    \/ upsert(p)
    \/ mark_synced(p)
    \/ sync_now_end(p)
    \/ returned(p)

\* --------------------------------------------------------- domain services
\* The table a creating service writes
TableOf(op) ==
    CASE op = "create_set" -> "flashcard_sets"
      [] op = "add_flashcard" -> "flashcards"
      [] op = "create_plan" -> "study_plans"
      [] op = "save_test" -> "mock_tests"
      [] op = "submit_result" -> "test_results"
      [] op = "update_progress" -> "study_plans"

CreateOps == {"create_set", "add_flashcard", "create_plan", "save_test", "submit_result"}

\* The call returns `result` to its caller.
Return(result) == [Reset(req) EXCEPT !.pc = "returned", !.op = req.op, !.id = req.id,
                                    !.ver = req.ver, !.sent = req.sent, !.result = result]

\* FlashcardService::create_set, add_flashcard, StudyPlanService::create_plan,
\* MockTestService::save_test, submit_result: the new record and "if online"
create(op) ==
    /\ req.pc = "idle"
    /\ req' = [Reset(req) EXCEPT !.uuids = @ + 1, !.op = op, !.id = req.uuids + 1, !.ver = 1,
                    !.pc = IF online /\ supabase THEN "remote" ELSE "local"]
    /\ UNCHANGED <<doc, cells, holders, supabase, offline_mode, reachable, work, connection, online, is_syncing, last_sync, sync_queue, queue_seq, rows, remote, cycle, stat>>

\* ... the insert into the remote table; an Err returns at once (map_err, `?`)
create_remote ==
    /\ req.pc = "remote"
    /\ req.op \in CreateOps
    /\ \E resp \in InsertResponses(TableOf(req.op), req.id) :
        /\ remote' = RemoteInsert(TableOf(req.op), req.id, req.ver, resp)
        /\ req' = IF ExecuteIsOk(resp) THEN [req EXCEPT !.pc = "local", !.sent = TRUE]
                  ELSE Return("Supabase")
    /\ UNCHANGED <<doc, cells, holders, supabase, offline_mode, reachable, work, connection, online, is_syncing, last_sync, sync_queue, queue_seq, rows, cycle, stat>>

\* ... "Save locally": the connection is taken, the value of synced is
\* `if self.storage.is_online().await { 1 } else { 0 }`
create_local ==
    /\ req.pc = "local"
    /\ req.op \in CreateOps
    /\ req' = IF ~connection THEN Return("Database")
              ELSE [req EXCEPT !.pc = "insert", !.synced = IF online THEN 1 ELSE 0]
    /\ UNCHANGED <<doc, cells, holders, supabase, offline_mode, reachable, work, connection, online, is_syncing, last_sync, sync_queue, queue_seq, rows, remote, cycle, stat>>

\* ... the value of dirty is `if self.storage.is_online().await { 0 } else { 1 }`,
\* a second read of the flag, and the INSERT runs
create_insert ==
    /\ req.pc = "insert"
    /\ rows' = [rows EXCEPT ![req.id] = [table |-> TableOf(req.op), ver |-> req.ver,
                                         synced |-> req.synced,
                                         dirty |-> IF online THEN 0 ELSE 1]]
    /\ req' = Return("Ok")
    /\ UNCHANGED <<doc, cells, holders, supabase, offline_mode, reachable, work, connection, online, is_syncing, last_sync, sync_queue, queue_seq, remote, cycle, stat>>

\* StudyPlanService::update_progress of plan `id`: get_plan, "if online"
update_progress(id) ==
    /\ req.pc = "idle"
    /\ req' = [Reset(req) EXCEPT !.updates = @ + 1, !.op = "update_progress", !.id = id,
                    !.pc = IF online /\ supabase THEN "get_remote" ELSE "get_local"]
    /\ UNCHANGED <<doc, cells, holders, supabase, offline_mode, reachable, work, connection, online, is_syncing, last_sync, sync_queue, queue_seq, rows, remote, cycle, stat>>

\* The changed plan: the progress of the request and updated_at = Utc::now(),
\* which tells it from the created plan (1) and from every earlier change.
Changed == req.updates + 1

\* StudyPlanService::get_plan from the remote table
get_plan_remote ==
    /\ req.pc = "get_remote"
    /\ \E resp \in Answers :
        req' = IF resp = "unreachable" THEN Return("Supabase")
               ELSE IF resp = "rejected" THEN Return("Serialization")
               ELSE IF remote["study_plans"][req.id] = 0 THEN Return("NotFound")
               ELSE [req EXCEPT !.pc = "check", !.ver = Changed]
    /\ UNCHANGED <<doc, cells, holders, supabase, offline_mode, reachable, work, connection, online, is_syncing, last_sync, sync_queue, queue_seq, rows, remote, cycle, stat>>

\* StudyPlanService::get_plan, "Fallback to local"
get_plan_local ==
    /\ req.pc = "get_local"
    /\ req' = IF ~connection THEN Return("Database")
              ELSE IF rows[req.id].table # "study_plans" THEN Return("NotFound")
              ELSE [req EXCEPT !.pc = "check", !.ver = Changed]
    /\ UNCHANGED <<doc, cells, holders, supabase, offline_mode, reachable, work, connection, online, is_syncing, last_sync, sync_queue, queue_seq, rows, remote, cycle, stat>>

\* update_progress, "Try to update in Supabase if online"
update_progress_check ==
    /\ req.pc = "check"
    /\ req' = [req EXCEPT !.pc = IF online /\ supabase THEN "remote" ELSE "local"]
    /\ UNCHANGED <<doc, cells, holders, supabase, offline_mode, reachable, work, connection, online, is_syncing, last_sync, sync_queue, queue_seq, rows, remote, cycle, stat>>

\* ... the update of the remote row
update_progress_remote ==
    /\ req.pc = "remote"
    /\ req.op = "update_progress"
    /\ \E resp \in Answers :
        /\ remote' = RemoteUpdate("study_plans", req.id, req.ver, resp)
        /\ req' = IF ExecuteIsOk(resp) THEN [req EXCEPT !.pc = "local", !.sent = TRUE]
                  ELSE Return("Supabase")
    /\ UNCHANGED <<doc, cells, holders, supabase, offline_mode, reachable, work, connection, online, is_syncing, last_sync, sync_queue, queue_seq, rows, cycle, stat>>

\* ... "UPDATE study_plans SET progress, tasks, updated_at, dirty = ?4 WHERE id"
\* with dirty `if self.storage.is_online().await { 0 } else { 1 }`
update_progress_local ==
    /\ req.pc = "local"
    /\ req.op = "update_progress"
    /\ IF ~connection
       THEN /\ req' = Return("Database")
            /\ UNCHANGED rows
       ELSE /\ rows' = IF rows[req.id].table = "study_plans"
                       THEN [rows EXCEPT ![req.id].ver = req.ver,
                                         ![req.id].dirty = IF online THEN 0 ELSE 1]
                       ELSE rows
            /\ req' = Return("Ok")
    /\ UNCHANGED <<doc, cells, holders, supabase, offline_mode, reachable, work, connection, online, is_syncing, last_sync, sync_queue, queue_seq, remote, cycle, stat>>

\* FlashcardService::delete_set of set `id`: "Try Supabase if online"
delete_set(id) ==
    /\ req.pc = "idle"
    /\ req' = [Reset(req) EXCEPT !.op = "delete_set", !.id = id,
                    !.pc = IF online /\ supabase THEN "delete_remote" ELSE "delete_local"]
    /\ UNCHANGED <<doc, cells, holders, supabase, offline_mode, reachable, work, connection, online, is_syncing, last_sync, sync_queue, queue_seq, rows, remote, cycle, stat>>

\* ... the delete of the remote row; an Err returns at once (map_err, `?`)
delete_set_remote ==
    /\ req.pc = "delete_remote"
    /\ \E resp \in Answers :
        /\ remote' = RemoteDelete("flashcard_sets", req.id, resp)
        /\ req' = IF ExecuteIsOk(resp) THEN [req EXCEPT !.pc = "delete_local", !.sent = TRUE]
                  ELSE Return("Supabase")
    /\ UNCHANGED <<doc, cells, holders, supabase, offline_mode, reachable, work, connection, online, is_syncing, last_sync, sync_queue, queue_seq, rows, cycle, stat>>

\* ... "DELETE FROM flashcard_sets WHERE id = ?1"; nothing else is written
delete_set_local ==
    /\ req.pc = "delete_local"
    /\ IF ~connection
       THEN /\ req' = Return("Database")
            /\ UNCHANGED rows
       ELSE /\ rows' = IF rows[req.id].table = "flashcard_sets"
                       THEN [rows EXCEPT ![req.id] = NoRow] ELSE rows
            /\ req' = Return("Ok")
    /\ UNCHANGED <<doc, cells, holders, supabase, offline_mode, reachable, work, connection, online, is_syncing, last_sync, sync_queue, queue_seq, remote, cycle, stat>>

\* The caller of the service has the result.
respond ==
    /\ req.pc = "returned"
    /\ req' = Reset(req)
    /\ UNCHANGED <<doc, cells, holders, supabase, offline_mode, reachable, work, connection, online, is_syncing, last_sync, sync_queue, queue_seq, rows, remote, cycle, stat>>

\* The steps of a domain call after its first
Service ==
    \/ respond
    \/ create_remote
    \/ create_local
    \/ create_insert
    \/ get_plan_remote
    \/ get_plan_local
    \/ update_progress_check
    \/ update_progress_remote
    \/ update_progress_local

\* -------------------------------------------------------------- get_status
\* SyncManager::get_status reads the three flags one lock at a time, then counts.
get_status_is_syncing ==
    /\ stat.pc = "idle"
    /\ stat' = [IdleStat EXCEPT !.pc = "last_sync", !.is_syncing = is_syncing,
                             !.seen = IF is_syncing THEN last_sync ELSE 0]
    /\ UNCHANGED <<doc, cells, holders, supabase, offline_mode, reachable, work, connection, online, is_syncing, last_sync, sync_queue, queue_seq, rows, remote, cycle, req>>

get_status_last_sync ==
    /\ stat.pc = "last_sync"
    /\ stat' = [stat EXCEPT !.pc = "is_online", !.last_sync = last_sync, !.seen = 0]
    /\ UNCHANGED <<doc, cells, holders, supabase, offline_mode, reachable, work, connection, online, is_syncing, last_sync, sync_queue, queue_seq, rows, remote, cycle, req>>

\* get_status probing and storing the status instead of reading the cache
get_status_is_online_probe ==
    /\ stat.pc = "is_online"
    /\ online' = check_online
    /\ stat' = [stat EXCEPT !.pc = "count", !.is_online = check_online]
    /\ UNCHANGED <<doc, cells, holders, supabase, offline_mode, reachable, work, connection, is_syncing, last_sync, sync_queue, queue_seq, rows, remote, cycle, req>>

get_status_is_online ==
    /\ stat.pc = "is_online"
    /\ stat' = [stat EXCEPT !.pc = "count", !.is_online = online]
    /\ UNCHANGED <<doc, cells, holders, supabase, offline_mode, reachable, work, connection, online, is_syncing, last_sync, sync_queue, queue_seq, rows, remote, cycle, req>>

\* "SELECT COUNT(*) FROM sync_queue"
PendingOperations_all == Len(sync_queue)

\* "SELECT COUNT(*) FROM sync_queue WHERE attempts < 5"
PendingOperations == Len(SelectSeq(sync_queue, LAMBDA e : e.attempts < MaxAttempts))

get_status_count ==
    /\ stat.pc = "count"
    /\ stat' = IF connection
               THEN [stat EXCEPT !.pc = "returned", !.pending_operations = PendingOperations, !.result = "Ok"]
               ELSE [IdleStat EXCEPT !.pc = "returned", !.result = "Database"]
    /\ UNCHANGED <<doc, cells, holders, supabase, offline_mode, reachable, work, connection, online, is_syncing, last_sync, sync_queue, queue_seq, rows, remote, cycle, req>>

\* The caller has the SyncStatus.
get_status_returned ==
    /\ stat.pc = "returned"
    /\ stat' = IdleStat
    /\ UNCHANGED <<doc, cells, holders, supabase, offline_mode, reachable, work, connection, online, is_syncing, last_sync, sync_queue, queue_seq, rows, remote, cycle, req>>

get_status ==
    \/ get_status_returned
    \/ get_status_is_syncing
    \/ get_status_last_sync
    \/ get_status_is_online
    \/ get_status_count

\* The queue and the drain phase on their own: one caller of sync_now and
\* queued updates of flashcards, at most `ops` entries and `syncs` successful
\* cycles.
Drain(ops, syncs) ==
    \/ initialize
    \/ \E b \in BOOLEAN : set_online(b)
    \/ /\ queue_seq.id < ops
       /\ \E now \in {queue_seq.at, queue_seq.at + 1} \ {0} :
            queue_operation("update", "flashcards", 1, 1, now)
    \/ /\ last_sync < syncs
       /\ sync_now("manual")
    \/ QueueCycle("manual")

InitDrain == Init /\ supabase = TRUE

\* Few entries over many cycles: the attempt cap
NextDrain == Drain(DrainOps, DrainSync)

SpecDrain == InitDrain /\ [][NextDrain]_vars

\* The three operations of the partial-failure scenario in one batch
NextBatch == Drain(BatchOps, BatchSync)

SpecBatch == InitDrain /\ [][NextBatch]_vars

\* get_status next to the queue and one caller of sync_now
NextStatus ==
    \/ initialize
    \/ \E b \in BOOLEAN : set_online(b)
    \/ /\ queue_seq.id < StatusOps
       /\ stat.pc = "idle"
       /\ \E now \in {queue_seq.at + 1} :
            queue_operation("update", "flashcards", 1, 1, now)
    \/ /\ last_sync < StatusSync
       /\ sync_now("manual")
    \/ QueueCycle("manual")
    \/ get_status

SpecStatus == InitDrain /\ [][NextStatus]_vars

\* The whole engine: callers of sync_now (the scheduler, a manual caller), the
\* domain services, the queue and the connectivity flag; `load` and `syncs`
\* bound the calls that add data and the cycles that succeed.
Next ==
    \/ initialize
    \/ \E b \in BOOLEAN : set_online(b)
    \/ /\ Load < MaxLoad
       /\ queue_operation("insert", "flashcards", 1, 1, queue_seq.at + 1)
    \/ \E p \in {"scheduler"} :
        \/ tick(p)
        \/ reconnect(p)
        \/ /\ last_sync < MaxSync
           /\ sync_now(p)
        \/ Cycle(p)
    \/ /\ Load < MaxLoad
       /\ \E op \in {"create_set", "create_plan"} : create(op)
    \/ /\ Load < MaxLoad
       /\ \E id \in RowIds : update_progress(id)
    \/ Service

Spec == Init /\ [][Next]_vars

\* Two callers of sync_now at once
NextMutex ==
    \/ initialize
    \/ \E b \in BOOLEAN : set_online(b)
    \/ /\ Load < MutexLoad
       /\ queue_operation("insert", "flashcards", 1, 1, queue_seq.at + 1)
    \/ \E p \in Callers :
        \/ tick(p)
        \/ reconnect(p)
        \/ /\ last_sync < MutexSync
           /\ sync_now(p)
        \/ Cycle(p)
    \/ /\ Load < MutexLoad
       /\ \E op \in {"create_set", "create_plan"} : create(op)
    \/ create_remote
    \/ create_local
    \/ create_insert
    \/ respond

SpecMutex == Init /\ [][NextMutex]_vars

\* Two callers of sync_now next to the creation of sets, with every task that
\* is inside sync_now getting to run: each remote call and each unit of work
\* returns, and the runtime polls a task that can go on.
NextGuard ==
    \/ initialize
    \/ \E b \in BOOLEAN : set_online(b)
    \/ /\ req.uuids < GuardLoad
       /\ create("create_set")
    \/ create_remote
    \/ create_local
    \/ create_insert
    \/ respond
    \/ \E p \in Callers :
        \/ tick(p)
        \/ reconnect(p)
        \/ /\ last_sync < GuardSync
           /\ sync_now(p)
        \/ SweepCycle(p)

SpecGuard == Init /\ [][NextGuard]_vars /\ \A p \in Callers : WF_vars(SweepCycle(p))

\* The domain services and the connectivity flag on their own
NextService ==
    \/ initialize
    \/ \E b \in BOOLEAN : set_online(b)
    \/ /\ Load < MaxLoad
       /\ \E op \in CreateOps : create(op)
    \/ /\ Load < MaxLoad
       /\ \E id \in RowIds : update_progress(id)
    \/ Service

SpecService == Init /\ [][NextService]_vars

\* Sets created and deleted next to one caller of sync_now
NextDelete ==
    \/ initialize
    \/ \E b \in BOOLEAN : set_online(b)
    \/ /\ req.uuids < DeleteLoad
       /\ create("create_set")
    \/ create_remote
    \/ create_local
    \/ create_insert
    \/ \E id \in 1..DeleteLoad : delete_set(id)
    \/ delete_set_remote
    \/ delete_set_local
    \/ respond
    \/ /\ last_sync < DeleteSync
       /\ sync_now("manual")
    \/ SweepCycle("manual")

SpecDelete == Init /\ [][NextDelete]_vars

\* The scheduler and its probe while the network comes and goes
InitProbe ==
    /\ supabase \in BOOLEAN
    /\ offline_mode = FALSE
    /\ reachable \in BOOLEAN
    /\ New

NextProbe ==
    \/ initialize
    \/ \E b \in BOOLEAN : set_online(b)
    \/ \E b \in BOOLEAN : network(b)
    \/ /\ queue_seq.id < ProbeOps
       /\ queue_operation("update", "flashcards", 1, 1, queue_seq.at + 1)
    \/ tick("scheduler")
    \/ reconnect("scheduler")
    \/ /\ last_sync < ProbeSync
       /\ sync_now("scheduler")
    \/ QueueCycle("scheduler")

SpecProbe == InitProbe /\ [][NextProbe]_vars

\* No credentials: the flag is written by initialize and the scheduler only,
\* or set to false by a caller of set_online.
InitLocal == Init /\ supabase = FALSE

NextLocal ==
    \/ initialize
    \/ set_online(FALSE)
    \/ /\ Load < LocalLoad
       /\ queue_operation("delete", "flashcard_sets", 1, 1, queue_seq.at + 1)
    \/ tick("scheduler")
    \/ reconnect("scheduler")
    \/ sync_now("manual")
    \/ perform_sync("manual")
    \/ sync_now_end("manual")
    \/ returned("manual")
    \/ /\ Load < LocalLoad
       /\ \E op \in CreateOps : create(op)
    \/ create_local
    \/ create_insert
    \/ /\ Load < LocalLoad
       /\ \E id \in RowIds : update_progress(id)
    \/ get_plan_local
    \/ update_progress_check
    \/ update_progress_local
    \/ \E id \in RowIds : delete_set(id)
    \/ delete_set_local
    \/ respond

SpecLocal == InitLocal /\ [][NextLocal]_vars

\* Started with OFFLINE_MODE=true (the default), with or without credentials
InitOffline ==
    /\ supabase \in BOOLEAN
    /\ offline_mode = TRUE
    /\ reachable = TRUE
    /\ New

SpecOffline == InitOffline /\ [][Next]_vars

\* ------------------------------------------------- SqliteCache::execute
\* A caller hands a unit of work to execute and waits for the lock.
execute(u) ==
    /\ work.pc[u] = "idle"
    /\ u = "queue_operation" => queue_seq.id < StoreOps
    /\ u = "create_set" => \E r \in 1..StoreRows : rows[r] = NoRow
    /\ work' = [work EXCEPT !.pc[u] = "lock", !.result[u] = "none", !.early[u] = ~connection]
    /\ UNCHANGED <<doc, cells, holders, supabase, offline_mode, reachable, connection, online, is_syncing, last_sync, sync_queue, queue_seq, rows, remote, cycle, req, stat>>

\* The lock handed out without regard to its holder
execute_lock_unchecked(u) ==
    /\ work.pc[u] = "lock"
    /\ work' = [work EXCEPT !.guard = u, !.pc[u] = "match"]
    /\ UNCHANGED <<doc, cells, holders, supabase, offline_mode, reachable, connection, online, is_syncing, last_sync, sync_queue, queue_seq, rows, remote, cycle, req, stat>>

\* `let conn_guard = self.connection.lock().await`
execute_lock(u) ==
    /\ work.pc[u] = "lock"
    /\ work.guard = "none"
    /\ work' = [work EXCEPT !.guard = u, !.pc[u] = "match"]
    /\ UNCHANGED <<doc, cells, holders, supabase, offline_mode, reachable, connection, online, is_syncing, last_sync, sync_queue, queue_seq, rows, remote, cycle, req, stat>>

\* f(conn) started without a look at the connection
execute_match_unchecked(u) ==
    /\ work.pc[u] = "match"
    /\ work' = [work EXCEPT !.pc[u] = "f"]
    /\ UNCHANGED <<doc, cells, holders, supabase, offline_mode, reachable, connection, online, is_syncing, last_sync, sync_queue, queue_seq, rows, remote, cycle, req, stat>>

\* `match conn_guard.as_ref()`: Some(conn) starts f(conn), None is the error
execute_match(u) ==
    /\ work.pc[u] = "match"
    /\ work' = IF connection THEN [work EXCEPT !.pc[u] = "f"]
               ELSE [work EXCEPT !.pc[u] = "drop", !.result[u] = "Database"]
    /\ UNCHANGED <<doc, cells, holders, supabase, offline_mode, reachable, connection, online, is_syncing, last_sync, sync_queue, queue_seq, rows, remote, cycle, req, stat>>

\* f(conn) runs to its end: the statement of the caller.
execute_f(u) ==
    /\ work.pc[u] = "f"
    /\ work' = [work EXCEPT !.pc[u] = "drop", !.result[u] = "Ok"]
    /\ sync_queue' = CASE u = "queue_operation" ->
                            Append(sync_queue,
                                [id |-> queue_seq.id + 1, operation_type |-> "insert",
                                 table_name |-> "flashcards", record_id |-> 1, data |-> 1,
                                 created_at |-> queue_seq.at + 1, attempts |-> 0])
                       [] u = "remove_from_queue" /\ sync_queue # <<>> ->
                            remove_from_queue(sync_queue, Head(sync_queue).id)
                       [] OTHER -> sync_queue
    /\ queue_seq' = IF u = "queue_operation"
                    THEN [id |-> queue_seq.id + 1, at |-> queue_seq.at + 1]
                    ELSE queue_seq
    /\ stat' = IF u = "get_status"
               THEN [stat EXCEPT !.pending_operations = PendingOperations]
               ELSE stat
    /\ rows' = IF u = "create_set" /\ \E r \in 1..StoreRows : rows[r] = NoRow
               THEN LET id == CHOOSE r \in 1..StoreRows :
                                /\ rows[r] = NoRow
                                /\ \A k \in 1..StoreRows : rows[k] = NoRow => r <= k
                    IN  [rows EXCEPT ![id] = [table |-> "flashcard_sets", ver |-> 1,
                                              synced |-> 0, dirty |-> 1]]
               ELSE rows
    /\ UNCHANGED <<doc, cells, holders, supabase, offline_mode, reachable, connection, online, is_syncing, last_sync, remote, cycle, req>>

\* The end of execute: conn_guard goes out of scope, the result is returned.
execute_drop(u) ==
    /\ work.pc[u] = "drop"
    /\ work' = [work EXCEPT !.guard = IF @ = u THEN "none" ELSE @, !.pc[u] = "idle",
                             !.result[u] = "none", !.early[u] = FALSE]
    /\ UNCHANGED <<doc, cells, holders, supabase, offline_mode, reachable, connection, online, is_syncing, last_sync, sync_queue, queue_seq, rows, remote, cycle, req, stat>>

\* The callers of execute at once, the store opened at any moment
NextStore ==
    \/ initialize
    \/ \E u \in Units :
        \/ execute(u)
        \/ execute_lock(u)
        \/ execute_match(u)
        \/ execute_f(u)
        \/ execute_drop(u)

SpecStore == Init /\ [][NextStore]_vars

\* The calls made around the opening of the store: queue_operation and the
\* count of get_status step by step through execute, next to one caller of
\* sync_now whose units of work take the lock when it is free.
NextEarly ==
    \/ initialize
    \/ \E b \in BOOLEAN : set_online(b)
    \/ \E u \in {"queue_operation", "get_status"} :
        \/ execute(u)
        \/ execute_lock(u)
        \/ execute_match(u)
        \/ execute_f(u)
        \/ execute_drop(u)
    \/ /\ last_sync < EarlySync
       /\ sync_now("manual")
    \/ perform_sync("manual")
    \/ /\ work.guard = "none"
       /\ \/ get_queued_operations("manual")
          \/ process_sync_queue("manual")
          \/ sync_dirty_table("manual")
    \/ execute_sync_operation("manual")
    \/ sync_now_end("manual")
    \/ returned("manual")

SpecEarly == Init /\ [][NextEarly]_vars

\* Every caller there is next to the connectivity flag, one call at a time:
\* a tick of the scheduler, a service on one study plan, queue_operation or
\* get_status, with initialize and set_online falling anywhere in between.
NextFrame ==
    \/ initialize
    \/ \E b \in BOOLEAN : set_online(b)
    \/ /\ Load < FrameLoad
       /\ req.pc = "idle"
       /\ stat.pc = "idle"
       /\ cycle["scheduler"].pc = "idle"
       /\ queue_operation("insert", "flashcards", 1, 1, queue_seq.at + 1)
    \/ /\ req.pc = "idle"
       /\ stat.pc = "idle"
       /\ tick("scheduler")
    \/ reconnect("scheduler")
    \/ /\ last_sync < FrameSync
       /\ sync_now("scheduler")
    \/ Cycle("scheduler")
    \/ /\ Load < FrameLoad
       /\ stat.pc = "idle"
       /\ cycle["scheduler"].pc = "idle"
       /\ create("create_plan")
    \/ /\ Load < FrameLoad
       /\ stat.pc = "idle"
       /\ cycle["scheduler"].pc = "idle"
       /\ update_progress(1)
    \/ Service
    \/ /\ req.pc = "idle"
       /\ cycle["scheduler"].pc = "idle"
       /\ get_status_is_syncing
    \/ get_status_last_sync
    \/ get_status_is_online
    \/ get_status_count
    \/ get_status_returned

SpecFrame == Init /\ [][NextFrame]_vars

\* Operations of every kind queued by a caller of queue_operation, next to one
\* caller of sync_now.  SyncOperation.operation_type is a String: "merge"
\* stands for a value that is none of "insert", "update", "delete".  The n-th
\* payload is n.
OperationTypes == {"insert", "update", "delete", "merge"}

QueueTables == {"cases", "flashcards"}

NextQueue ==
    \/ initialize
    \/ \E b \in BOOLEAN : set_online(b)
    \/ /\ queue_seq.id < QueueOps
       /\ \E operation_type \in OperationTypes, table_name \in QueueTables :
            queue_operation(operation_type, table_name, 1, queue_seq.id + 1, queue_seq.at + 1)
    \/ /\ last_sync < QueueSync
       /\ sync_now("manual")
    \/ QueueCycle("manual")

SpecQueue == InitDrain /\ [][NextQueue]_vars

\* ------------------------------------------------------------- properties
\* Caller p is inside sync_now, between taking is_syncing and releasing it.
\* Up to more entries than one batch holds, queued within the scheduler's
\* first interval: the first BatchLimit entries are of a type
\* execute_sync_operation turns down every time, the later ones are inserts.
\* The scheduler keeps ticking and the connectivity flag stays on once
\* initialize has set it.
ProgressTick ==
    /\ last_sync < ProgressSync
    /\ tick("scheduler")

NextProgress ==
    \/ initialize
    \/ /\ queue_seq.id < ProgressOps
       /\ last_sync = 0
       /\ cycle["scheduler"].pc = "idle"
       /\ queue_operation(IF queue_seq.id < BatchLimit THEN "merge" ELSE "insert",
                          "flashcards", 1, 1, queue_seq.at + 1)
    \/ ProgressTick
    \/ sync_now("scheduler")
    \/ QueueCycle("scheduler")

SpecProgress ==
    /\ InitDrain
    /\ [][NextProgress]_vars
    /\ WF_vars(ProgressTick)
    /\ WF_vars(sync_now("scheduler"))
    /\ WF_vars(QueueCycle("scheduler"))

\* ----------------------------------------------------------------- chunking
\* The characters of the texts: a letter, a punctuation mark sanitize_text
\* keeps, a character it removes, a space and a newline.
Chars == {"a", ".", "*", " ", "\n"}

\* The texts handed to semantic_chunk
Texts == UNION {[1..n -> Chars] : n \in 0..MaxText}

\* The values of overlap_words the callers pass
Overlaps == {50, 200}

\* char::is_whitespace
is_whitespace(c) == c \in {" ", "\n"}

\* char::is_alphanumeric
is_alphanumeric(c) == c = "a"

\* str::trim
trim(s) ==
    LET inner == {i \in DOMAIN s : ~is_whitespace(s[i])}
    IN  IF inner = {} THEN <<>>
        ELSE LET first == CHOOSE i \in inner : \A j \in inner : i <= j
                 last == CHOOSE i \in inner : \A j \in inner : j <= i
             IN  SubSeq(s, first, last)

\* str::split_whitespace: the runs of characters that are not whitespace
split_whitespace(s) ==
    LET RECURSIVE Words(_, _)
        Words(i, word) ==
            IF i > Len(s) THEN (IF word = <<>> THEN <<>> ELSE <<word>>)
            ELSE IF is_whitespace(s[i])
            THEN (IF word = <<>> THEN <<>> ELSE <<word>>) \o Words(i + 1, <<>>)
            ELSE Words(i + 1, Append(word, s[i]))
    IN  Words(1, <<>>)

\* str::split(c): the pieces between the occurrences of c, empty ones included
split(s, c) ==
    LET RECURSIVE Pieces(_, _)
        Pieces(i, piece) ==
            IF i > Len(s) THEN <<piece>>
            ELSE IF s[i] = c THEN <<piece>> \o Pieces(i + 1, <<>>)
            ELSE Pieces(i + 1, Append(piece, s[i]))
    IN  Pieces(1, <<>>)

\* [T]::join(sep)
join(parts, sep) ==
    LET RECURSIVE Joined(_)
        Joined(i) == IF i > Len(parts) THEN <<>>
                     ELSE IF i = Len(parts) THEN parts[i]
                     ELSE parts[i] \o sep \o Joined(i + 1)
    IN  Joined(1)

\* validation::validate_not_empty: TRUE for Ok(())
validate_not_empty(value) == trim(value) # <<>>

\* validation::sanitize_text
sanitize_text(input) ==
    SelectSeq(input, LAMBDA c : is_alphanumeric(c) \/ is_whitespace(c) \/ c = ".")

\* DocumentProcessor::clean_text
clean_text(text) == sanitize_text(join(split_whitespace(text), <<" ">>))

\* semantic_chunk, "Start new chunk with overlap": the paragraphs of
\* current_chunk the next chunk starts with.  The inner `overlap_words`
\* shadows the parameter.
overlap_paragraphs(current_chunk) ==
    IF Len(current_chunk) > 1
    THEN LET RECURSIVE Count(_, _)
             Count(i, overlap_words) ==
                IF i < 1 THEN 0
                ELSE LET para_words == Len(split_whitespace(current_chunk[i]))
                     IN  IF overlap_words + para_words <= overlap_words
                         THEN 1 + Count(i - 1, overlap_words + para_words)
                         ELSE 0
             overlap_count == Count(Len(current_chunk), 0)
             keep == IF overlap_count > 1 THEN overlap_count ELSE 1
             start_idx == IF Len(current_chunk) > keep THEN Len(current_chunk) - keep ELSE 0
         IN  SubSeq(current_chunk, start_idx + 1, Len(current_chunk))
    ELSE <<>>

\* DocumentProcessor::semantic_chunk: [ok |-> FALSE] is Err(Validation),
\* [ok |-> TRUE, chunks |-> c] is Ok(c)
semantic_chunk(text, overlap_words) ==
    IF ~validate_not_empty(text) THEN [ok |-> FALSE, chunks |-> <<>>]
    ELSE
    LET cleaned == clean_text(text)
        paragraphs == SelectSeq([i \in DOMAIN split(cleaned, "\n") |-> trim(split(cleaned, "\n")[i])],
                                LAMBDA p : p # <<>>)
        WordCount(chunk) ==
            LET RECURSIVE Sum(_)
                Sum(i) == IF i > Len(chunk) THEN 0
                          ELSE Len(split_whitespace(chunk[i])) + Sum(i + 1)
            IN  Sum(1)
        RECURSIVE Loop(_, _, _, _)
        Loop(i, chunks, current_chunk, current_word_count) ==
            IF i > Len(paragraphs)
            THEN IF current_chunk # <<>> THEN Append(chunks, join(current_chunk, <<"\n", "\n">>))
                 ELSE chunks
            ELSE LET paragraph == paragraphs[i]
                     word_count == Len(split_whitespace(paragraph))
                 IN  IF current_word_count + word_count > WordsPerChunk /\ current_chunk # <<>>
                     THEN LET kept == overlap_paragraphs(current_chunk)
                          IN  Loop(i + 1, Append(chunks, join(current_chunk, <<"\n", "\n">>)),
                                   Append(kept, paragraph), WordCount(kept) + word_count)
                     ELSE Loop(i + 1, chunks, Append(current_chunk, paragraph),
                               current_word_count + word_count)
        chunks == Loop(1, <<>>, <<>>, 0)
    IN  IF chunks = <<>> /\ cleaned # <<>> THEN [ok |-> TRUE, chunks |-> <<cleaned>>]
        ELSE [ok |-> TRUE, chunks |-> chunks]

\* A caller hands a text to semantic_chunk ...
InitChunk ==
    /\ supabase = FALSE
    /\ offline_mode = FALSE
    /\ reachable = TRUE
    /\ NewState
    /\ cells = <<>>
    /\ holders = <<>>
    /\ \E text \in Texts, overlap_words \in Overlaps :
         doc = [IdleDoc EXCEPT !.pc = "called", !.text = text, !.overlap_words = overlap_words]

\* ... and has its result.
chunk ==
    /\ doc.pc = "called"
    /\ doc' = [doc EXCEPT !.pc = "returned", !.result = semantic_chunk(doc.text, doc.overlap_words)]
    /\ UNCHANGED <<cells, holders, supabase, offline_mode, reachable, work, connection, online, is_syncing, last_sync, sync_queue, queue_seq, rows, remote, cycle, req, stat>>

NextChunk == chunk

SpecChunk == InitChunk /\ [][NextChunk]_vars

\* ------------------------------------------------------- clones and handles
\* HybridStorage::is_online through holder h: the value behind its handle
is_online(h) == cells[holders[h].online]

\* A copy made by building a new HybridStorage from the same configuration:
\* HybridStorage::new again, with its own connection and its own flag
HybridStorage_clone_rebuilt(h) ==
    /\ h \in Storages
    /\ holders[h] = NoHolder
    /\ cells' = cells \o <<FALSE, FALSE>>
    /\ holders' = [holders EXCEPT ![h] = [NoHolder EXCEPT !.connection = Len(cells) + 1,
                                                           !.online = Len(cells) + 2, !.pc = "idle"]]
    /\ UNCHANGED <<doc, supabase, offline_mode, reachable, work, connection, online, is_syncing, last_sync, sync_queue, queue_seq, rows, remote, cycle, req, stat>>

\* AppState::flashcard_service, study_plan_service: the service is made with
\* (*self.storage).clone().  #[derive(Clone)] clones field by field, and the
\* clone of an Arc is the same address.
HybridStorage_clone(h) ==
    /\ h \in Storages
    /\ holders[h] = NoHolder
    /\ holders' = [holders EXCEPT ![h] = holders["AppState"]]
    /\ UNCHANGED <<doc, cells, supabase, offline_mode, reachable, work, connection, online, is_syncing, last_sync, sync_queue, queue_seq, rows, remote, cycle, req, stat>>

\* #[derive(Clone)] of SyncManager: the three Arc fields are cloned.
SyncManager_clone(m) ==
    /\ m \in Managers
    /\ holders[m] = NoHolder
    /\ holders' = [holders EXCEPT ![m] = [holders["SyncManager"] EXCEPT !.pc = "idle"]]
    /\ UNCHANGED <<doc, cells, supabase, offline_mode, reachable, work, connection, online, is_syncing, last_sync, sync_queue, queue_seq, rows, remote, cycle, req, stat>>

\* HybridStorage::initialize through holder h
initialize_by(h) ==
    /\ holders[h] # NoHolder
    /\ ~cells[holders[h].connection]
    /\ cells' = [cells EXCEPT ![holders[h].connection] = TRUE,
                              ![holders[h].online] = IF supabase THEN check_online ELSE @]
    /\ UNCHANGED <<doc, holders, supabase, offline_mode, reachable, work, connection, online, is_syncing, last_sync, sync_queue, queue_seq, rows, remote, cycle, req, stat>>

\* HybridStorage::set_online through holder h
set_online_by(h, b) ==
    /\ holders[h] # NoHolder
    /\ cells' = [cells EXCEPT ![holders[h].online] = b]
    /\ UNCHANGED <<doc, holders, supabase, offline_mode, reachable, work, connection, online, is_syncing, last_sync, sync_queue, queue_seq, rows, remote, cycle, req, stat>>

\* SyncManager::sync_now through manager m, first critical section
sync_now_by(m) ==
    /\ m \in Managers
    /\ holders[m].pc = "idle"
    /\ IF cells[holders[m].is_syncing]
       THEN UNCHANGED <<cells, holders>>
       ELSE /\ cells' = [cells EXCEPT ![holders[m].is_syncing] = TRUE]
            /\ holders' = [holders EXCEPT ![m].pc = "perform"]
    /\ UNCHANGED <<doc, supabase, offline_mode, reachable, work, connection, online, is_syncing, last_sync, sync_queue, queue_seq, rows, remote, cycle, req, stat>>

\* SyncManager::sync_now through manager m, "Update status" with `result`
sync_now_end_by(m, result) ==
    /\ m \in Managers
    /\ holders[m].pc = "perform"
    /\ result = "Ok" => is_online(m)
    /\ cells' = [cells EXCEPT ![holders[m].is_syncing] = FALSE,
                              ![holders[m].last_sync] = IF result = "Ok" THEN @ + 1 ELSE @]
    /\ holders' = [holders EXCEPT ![m].pc = "idle"]
    /\ UNCHANGED <<doc, supabase, offline_mode, reachable, work, connection, online, is_syncing, last_sync, sync_queue, queue_seq, rows, remote, cycle, req, stat>>

NextClone ==
    \/ \E h \in Storages : HybridStorage_clone(h)
    \/ \E m \in Managers : SyncManager_clone(m)
    \/ \E h \in Storages \cup Managers : initialize_by(h)
    \/ \E h \in Storages \cup Managers, b \in BOOLEAN : set_online_by(h, b)
    \/ \E m \in Managers :
        /\ cells[holders["SyncManager"].last_sync] < CloneSync
        /\ sync_now_by(m)
    \/ \E m \in Managers, result \in {"Ok", "Offline", "Sync"} : sync_now_end_by(m, result)

\* The storage and the sync manager as AppState::new gets them, with their
\* handles
InitClone ==
    /\ supabase \in BOOLEAN
    /\ offline_mode = FALSE
    /\ reachable = TRUE
    /\ NewState
    /\ doc = IdleDoc
    /\ cells = NewCells
    /\ holders = NewHolders

SpecClone == InitClone /\ [][NextClone]_vars

Running(p) == cycle[p].pc \in {"perform", "fetch", "drain", "ack", "sweep", "upsert", "mark", "finish"}

\* The queue entry with id `operation_id`, as a set (empty when it is gone)
Entry(operation_id) == {sync_queue[i] : i \in {k \in DOMAIN sync_queue : sync_queue[k].id = operation_id}}

Clean(id) == rows[id].synced = 1 /\ rows[id].dirty = 0

\* C1: at most one sync cycle runs at a time.  A call of sync_now made while
\* another caller is inside sync_now does not start a cycle: it returns
\* "Sync already in progress" in its first step, with some other caller still
\* inside, and changes neither is_syncing, last_sync, the queue, the rows, the
\* remote store nor the connectivity flag.
C1_MutualExclusion ==
    /\ [](\A p, q \in Callers : Running(p) /\ Running(q) => p = q)
    /\ [](\A p \in Callers : Running(p) => is_syncing)
    /\ [][\A p \in Callers :
            (cycle[p].pc # "returned" /\ cycle'[p].pc = "returned" /\ cycle'[p].result = "AlreadySyncing")
            => /\ \E q \in Callers \ {p} : Running(q)
               /\ is_syncing /\ is_syncing'
               /\ UNCHANGED <<last_sync, sync_queue, rows, remote, online>>]_vars

\* A caller was turned away while the other one is still inside its cycle.
C1_Witness ==
    \E p, q \in Callers :
        /\ p # q
        /\ Running(q)
        /\ cycle[p].pc = "returned"
        /\ cycle[p].result = "AlreadySyncing"

\* C2: when the connectivity flag is false at the check of perform_sync, the
\* cycle ends there with Offline: that step and the return of sync_now leave
\* the queue, the rows, the remote store and last_sync as they were, sync_now
\* returns Offline, and is_syncing is false when it has returned.
C2_OfflineShortCircuit ==
    [][\A p \in Callers :
        /\ (cycle[p].pc = "perform" /\ ~online /\ cycle'[p] # cycle[p])
            => /\ cycle'[p].pc = "finish"
               /\ cycle'[p].result = "Offline"
               /\ UNCHANGED <<sync_queue, rows, remote, last_sync>>
        /\ (cycle[p].pc = "finish" /\ cycle[p].result = "Offline" /\ cycle'[p] # cycle[p])
            => /\ cycle'[p].pc = "returned"
               /\ cycle'[p].result = "Offline"
               /\ ~is_syncing'
               /\ UNCHANGED <<sync_queue, rows, remote, last_sync>>]_vars

\* sync_now has returned Offline with an entry queued and a dirty row waiting.
C2_Witness ==
    \E p \in Callers :
        /\ cycle[p].pc = "returned"
        /\ cycle[p].result = "Offline"
        /\ ~is_syncing
        /\ last_sync = 0
        /\ sync_queue # <<>>
        /\ \E id \in RowIds : rows[id].dirty = 1

\* C3: a cycle that passed the connectivity check and met no failure other than
\* failed remote calls (of queued operations or of uploads of dirty rows)
\* advances last_sync when it ends.
C3_BestEffortCompletion ==
    [][\A p \in Callers :
        (cycle[p].pc = "finish" /\ cycle'[p].pc = "returned" /\ cycle[p].result \in {"Ok", "Sync"})
        => last_sync' > last_sync]_vars

\* C4: no queue entry ever has more than 5 attempts; the operation a drain is
\* executing has fewer than 5 attempts; and the batch a drain fetches holds
\* every entry with 4 attempts and no entry with 5 or more.
C4_AttemptCap ==
    /\ [](\A i \in DOMAIN sync_queue : sync_queue[i].attempts <= 5)
    /\ [](\A p \in Callers :
            cycle[p].pc \in {"drain", "ack"}
            => \A e \in Entry(cycle[p].operations[cycle[p].next].id) : e.attempts < 5)
    /\ [][\A p \in Callers :
            (cycle[p].pc = "fetch" /\ cycle'[p].pc \in {"drain", "sweep"})
            => LET fetched == {cycle'[p].operations[k].id : k \in DOMAIN cycle'[p].operations}
               IN  \A i \in DOMAIN sync_queue :
                    /\ sync_queue[i].attempts = 4 => sync_queue[i].id \in fetched
                    /\ sync_queue[i].attempts >= 5 => sync_queue[i].id \notin fetched]_vars

\* An entry has failed five drains, and the sixth drain has fetched its batch
\* without it.
C4_Witness ==
    \E p \in Callers :
        /\ cycle[p].pc = "sweep"
        /\ last_sync = 5
        /\ \E i \in DOMAIN sync_queue :
            /\ sync_queue[i].attempts = 5
            /\ \A k \in DOMAIN cycle[p].operations : cycle[p].operations[k].id # sync_queue[i].id

\* The drain of caller p is over: every operation of its batch had its turn.
PastDrain(p) ==
    \/ cycle[p].pc \in {"sweep", "upsert", "mark"}
    \/ cycle[p].pc \in {"finish", "returned"} /\ cycle[p].result \in {"Ok", "Sync", "Internal"}

C6_PendingOperations ==
    [][/\ (stat.pc = "count" /\ stat'.pc = "returned" /\ stat'.result = "Ok")
            => stat'.pending_operations
                = Cardinality({i \in DOMAIN sync_queue : sync_queue[i].attempts < 5})
       /\ \A i \in DOMAIN sync_queue :
            sync_queue[i].attempts >= 5
            => \E j \in DOMAIN sync_queue' : sync_queue'[j] = sync_queue[i]]_vars

\* get_status has returned 1 with two entries in the queue, one of them at the
\* cap.
C6_Witness ==
    /\ stat.pc = "returned"
    /\ stat.result = "Ok"
    /\ stat.pending_operations = 1
    /\ Len(sync_queue) = 2
    /\ \E i \in DOMAIN sync_queue : sync_queue[i].attempts = 5

\* C7: when a cycle has ended, every record it read as dirty and whose upload
\* returned Ok is stored with synced = 1 and dirty = 0, unless the row was
\* written locally after the cycle read it.
C7_Convergence ==
    \A p \in Callers :
        cycle[p].pc \in {"finish", "returned"}
        => \A record \in cycle[p].uploaded :
            rows[record.id].ver = record.ver => Clean(record.id)

\* A cycle has returned after uploading a row that was dirty: the row is clean
\* and the remote store has it.
C7_Witness ==
    \E p \in Callers :
        /\ cycle[p].pc = "returned"
        /\ \E record \in cycle[p].uploaded :
            /\ rows[record.id].ver = record.ver
            /\ Clean(record.id)
            /\ remote[rows[record.id].table][record.id] = record.ver

\* C8: no row is stored with synced = 1 and dirty = 1.
C8_FlagInvariant == \A id \in RowIds : ~(rows[id].synced = 1 /\ rows[id].dirty = 1)

\* C9: a domain write whose immediate remote write failed returns the error
\* with the written record present in the local table.
C9_LocalFirstDurability ==
    [][(req.pc = "remote" /\ req'.pc = "returned" /\ req'.result = "Supabase")
        => /\ rows'[req.id].table = TableOf(req.op)
           /\ rows'[req.id].ver = req.ver]_vars

\* C10: a domain write stores its row with synced = 1 and dirty = 0 only if its
\* remote write was made and returned Ok; a write whose remote write was not
\* made stores the row with dirty = 1.
C10_FlagsFollowRemoteWrite ==
    [][(req.pc \in {"insert", "local"} /\ req'.pc = "returned" /\ req'.result = "Ok")
        => /\ Clean(req.id)' => req.sent
           /\ ~req.sent => rows'[req.id].dirty = 1]_vars

\* C11: create_set made while offline (the flag is false at each of its reads)
\* returns Ok without a remote call and stores the row with synced = 0 and
\* dirty = 1, with no remote copy.  A later cycle that runs online reads every
\* dirty row of flashcard_sets, leaves the table only after the last record
\* read was uploaded (unless an upload failed), and when it has ended every
\* record whose upload the remote store accepted is stored with synced = 1,
\* dirty = 0 and the remote table holds it.
C11_OfflineWriteThenReconnect ==
    /\ [][(req.pc = "insert" /\ req.op = "create_set" /\ ~req.sent /\ req.synced = 0 /\ ~online
            /\ req' # req)
          => /\ req'.pc = "returned"
             /\ req'.result = "Ok"
             /\ rows'[req.id] = [table |-> "flashcard_sets", ver |-> req.ver, synced |-> 0, dirty |-> 1]
             /\ remote' = remote
             /\ remote["flashcard_sets"][req.id] = 0]_vars
    /\ [][\A p \in Callers :
            /\ (cycle[p].pc = "sweep" /\ cycle'[p] # cycle[p] /\ supabase /\ connection
                /\ Tables[cycle[p].table] = "flashcard_sets")
               => \A id \in RowIds :
                    (rows[id].table = "flashcard_sets" /\ rows[id].dirty = 1)
                    => \E k \in DOMAIN cycle'[p].dirty_records :
                        cycle'[p].dirty_records[k] = [id |-> id, ver |-> rows[id].ver]
            /\ (cycle[p].pc \in {"upsert", "mark"} /\ cycle'[p].pc \in {"sweep", "finish"}
                /\ cycle'[p].result = IF cycle'[p].pc = "finish" THEN "Ok" ELSE "none")
               => cycle[p].pc = "mark" /\ Len(cycle[p].dirty_records) = 1]_vars
    /\ [](\A p \in Callers :
            cycle[p].pc \in {"finish", "returned"}
            => \A record \in cycle[p].uploaded :
                (rows[record.id].table = "flashcard_sets" /\ record.resp = "success")
                => /\ Clean(record.id)
                   /\ remote["flashcard_sets"][record.id] = record.ver)

\* A set created offline, without a remote call, was uploaded by a cycle that
\* has returned Ok: the row is clean and the remote table holds it.
C11_Witness ==
    /\ req.pc = "returned"
    /\ req.op = "create_set"
    /\ req.result = "Ok"
    /\ ~req.sent
    /\ \E p \in Callers :
        /\ cycle[p].pc = "returned"
        /\ cycle[p].result = "Ok"
        /\ [id |-> req.id, ver |-> req.ver, resp |-> "success"] \in cycle[p].uploaded
    /\ last_sync = 1
    /\ Clean(req.id)
    /\ remote["flashcard_sets"][req.id] = req.ver

\* C12: a sweep does not mark clean a local change made after it read the
\* row: when the step "mark as synced" finds the row at another version than
\* the record it uploaded, the row is not synced = 1, dirty = 0 afterwards.
C12_SweepKeepsLaterChange ==
    [][\A p \in Callers :
        (cycle[p].pc = "mark" /\ cycle'[p] # cycle[p])
        => LET record == Head(cycle[p].dirty_records)
           IN  rows[record.id].ver # record.ver
               => ~(rows'[record.id].synced = 1 /\ rows'[record.id].dirty = 0)]_vars

\* C13: the step of the drain that settles an executed operation deletes its
\* queue entry only if the remote store answered the call with success; after
\* any other answer, or none, the entry stays with one attempt more.  No step
\* changes a field other than attempts of an entry that stays in the queue.
C13_RemovedOnlyOnSuccess ==
    [][/\ \A p \in Callers :
            (cycle[p].pc = "ack" /\ cycle'[p] # cycle[p] /\ connection)
            => LET operation == cycle[p].operations[cycle[p].next]
                   after == {sync_queue'[i] : i \in {k \in DOMAIN sync_queue' :
                                                        sync_queue'[k].id = operation.id}}
               IN  IF cycle[p].response = "success"
                   THEN after = {}
                   ELSE after = {[e EXCEPT !.attempts = @ + 1] : e \in Entry(operation.id)}
       /\ \A i \in DOMAIN sync_queue : \A j \in DOMAIN sync_queue' :
            sync_queue'[j].id = sync_queue[i].id
            => [sync_queue'[j] EXCEPT !.attempts = 0] = [sync_queue[i] EXCEPT !.attempts = 0]]_vars

\* C14: a delete_set of a set the remote table holds, which returns Ok without
\* the remote delete having been made (offline, or no remote client), leaves
\* a queue entry that describes the delete of that set.
C14_SkippedDeleteIsQueued ==
    [][(req.pc = "delete_local" /\ req'.pc = "returned" /\ req'.result = "Ok" /\ ~req.sent
        /\ remote["flashcard_sets"][req.id] # 0)
        => \E i \in DOMAIN sync_queue' :
            /\ sync_queue'[i].operation_type = "delete"
            /\ sync_queue'[i].table_name = "flashcard_sets"
            /\ sync_queue'[i].record_id = req.id]_vars

\* C15: the status check_online returns to initialize and to the scheduler is
\* true only while the remote store can be reached (a probe sent to a store
\* out of reach cannot succeed).
C15_ProbeDecides ==
    [][/\ (~connection /\ connection' /\ supabase) => (online' => reachable)
       /\ \A p \in Callers :
            (cycle[p].pc = "reconnect" /\ cycle'[p] # cycle[p])
            => (cycle'[p].pc = "call" => reachable)]_vars

C17_OfflineModeLocalOnly ==
    offline_mode
    => /\ req.pc \notin {"remote", "get_remote", "delete_remote"}
       /\ ~req.sent
       /\ \A p \in Callers :
            /\ cycle[p].pc # "upsert"
            /\ cycle[p].pc = "drain" => ~supabase
            /\ cycle[p].response = "none"
       /\ \A t \in TableNames : \A id \in RowIds : remote[t][id] = 0

\* C18: a tick that finds the cached status online goes on to sync_now; one
\* that finds it offline probes with check_online and stores the answer, and
\* when the answer is false the tick is over with the queue, the rows,
\* is_syncing, last_sync and the remote store as they were, otherwise it goes
\* on to sync_now.  Whatever sync_now returns, the scheduler is back waiting
\* for the next tick in its next step, and in every state the scheduler has a
\* next step.
C18_SchedulerTick ==
    /\ [][LET s == "scheduler"
          IN  /\ (cycle[s].pc = "idle" /\ cycle'[s] # cycle[s])
                 => /\ cycle'[s].pc = IF online THEN "call" ELSE "reconnect"
                    /\ UNCHANGED <<online, is_syncing, last_sync, sync_queue, rows, remote>>
              /\ (cycle[s].pc = "reconnect" /\ cycle'[s] # cycle[s])
                 => /\ online' = check_online
                    /\ cycle'[s].pc = IF online' THEN "call" ELSE "idle"
                    /\ UNCHANGED <<is_syncing, last_sync, sync_queue, rows, remote>>
              /\ (cycle[s].pc = "call" /\ cycle'[s] # cycle[s])
                 => cycle'[s].pc \in {"perform", "returned"}
              /\ (cycle[s].pc = "returned" /\ cycle'[s] # cycle[s])
                 => cycle'[s] = IdleCycle]_vars
    /\ [](ENABLED (\/ tick("scheduler")
                   \/ reconnect("scheduler")
                   \/ sync_now("scheduler")
                   \/ Cycle("scheduler")))

\* sync_now has returned "already in progress" to the scheduler's tick while
\* the other caller's cycle goes on with a non-empty queue.
C18_Witness ==
    /\ cycle["scheduler"].pc = "returned"
    /\ cycle["scheduler"].result = "AlreadySyncing"
    /\ Running("manual")
    /\ online
    /\ sync_queue # <<>>

\* C19: when the sweep uploads a record whose id the remote store already
\* holds with different content and takes the upload as done, the remote row
\* is the local payload afterwards.
C19_LastWriterWins ==
    [][\A p \in Callers :
         (cycle[p].pc = "upsert" /\ cycle'[p].pc = "mark")
         => LET record == Head(cycle[p].dirty_records)
                t == Tables[cycle[p].table]
            IN  remote[t][record.id] \notin {0, record.ver}
                => remote'[t][record.id] = record.ver]_vars

\* C20: when the sweep uploads a record that the remote store already holds
\* with that very content, the remote store is afterwards what it was, and
\* unless no response arrived at all the upload is taken as done: the sweep
\* goes on to mark the row and returns no error for it.
C20_IdempotentUpsert ==
    [][\A p \in Callers :
         (cycle[p].pc = "upsert" /\ cycle'[p] # cycle[p])
         => LET record == Head(cycle[p].dirty_records)
                t == Tables[cycle[p].table]
            IN  remote[t][record.id] = record.ver
                => /\ remote' = remote
                   /\ cycle'[p].response # "unreachable"
                      => /\ cycle'[p].pc = "mark"
                         /\ cycle'[p].result = "none"]_vars

\* The second upload of a payload has been answered by the remote store and
\* the sweep is about to mark the row, the remote row being that payload.
C20_Witness ==
    \E p \in Callers :
        /\ cycle[p].pc = "mark"
        /\ cycle[p].response = "rejected"
        /\ LET record == Head(cycle[p].dirty_records)
           IN  /\ remote[Tables[cycle[p].table]][record.id] = record.ver
               /\ rows[record.id].ver = record.ver
               /\ rows[record.id].dirty = 1

\* C21: a call of queue_operation made with the local store open adds exactly
\* one entry, at the end, with attempts = 0 and the operation_type, table_name,
\* record_id and data it was given; every entry that was there stays as it
\* was, and so do the rows, is_syncing, last_sync, the connectivity flag, the
\* remote store and the cycle in progress.  The call does so whatever the
\* connectivity flag is and whether or not a cycle is running.
C21_QueueOperationFrame ==
    [][\A operation_type \in OperationTypes, table_name \in QueueTables :
         (connection /\ queue_operation(operation_type, table_name, 1, queue_seq.id + 1, queue_seq.at + 1))
         => /\ Len(sync_queue') = Len(sync_queue) + 1
            /\ SubSeq(sync_queue', 1, Len(sync_queue)) = sync_queue
            /\ LET e == sync_queue'[Len(sync_queue')]
               IN  /\ e.attempts = 0
                   /\ e.operation_type = operation_type
                   /\ e.table_name = table_name
                   /\ e.record_id = 1
                   /\ e.data = queue_seq.id + 1
                   /\ \A i \in DOMAIN sync_queue : sync_queue[i].id # e.id
            /\ UNCHANGED <<rows, is_syncing, last_sync, online, remote, cycle>>]_vars
    /\ [](connection
          => ENABLED <<queue_operation("insert", "cases", 1, queue_seq.id + 1, queue_seq.at + 1)>>_vars)

\* An entry was added with the connectivity flag off while a cycle goes
\* through the batch it had fetched before.
C21_Witness ==
    /\ ~online
    /\ cycle["manual"].pc \in {"drain", "ack"}
    /\ is_syncing
    /\ \E i \in DOMAIN sync_queue :
         /\ sync_queue[i].attempts = 0
         /\ \A k \in DOMAIN cycle["manual"].operations :
              cycle["manual"].operations[k].id # sync_queue[i].id

\* C22: the batch a drain goes through holds the entries in the order they
\* were enqueued in: an entry enqueued earlier (smaller AUTOINCREMENT id) comes
\* before one enqueued later, also when both were enqueued within the same
\* second.
C22_DrainInCreationOrder ==
    \A p \in Callers :
        \A i, j \in DOMAIN cycle[p].operations :
            i < j => cycle[p].operations[i].id < cycle[p].operations[j].id

\* C23: at most one unit of work handed to SqliteCache::execute runs against
\* the connection at any time, and the one that runs holds the lock of
\* SqliteCache.connection; this with the cycle, get_status, queue_operation
\* and a domain write calling execute at once.
C23_SerializedAccess ==
    /\ Cardinality({u \in Units : work.pc[u] = "f"}) <= 1
    /\ \A u \in Units : work.pc[u] \in {"match", "f", "drop"} => work.guard = u

\* One unit of work runs while the three other callers wait for the lock.
C23_Witness ==
    \E u \in Units :
        /\ work.pc[u] = "f"
        /\ \A v \in Units \ {u} : work.pc[v] = "lock"

\* C24: last_sync is None at the start; it changes only in the step that ends
\* a sync_now call whose result is Ok, and then to a later timestamp; a call
\* that returns Offline, "already in progress" or any other error leaves it
\* as it was.
C24_LastSyncOnlyOnSuccess ==
    /\ last_sync = 0
    /\ [][last_sync' # last_sync
          => /\ last_sync' > last_sync
             /\ \E p \in Callers :
                  /\ cycle[p].pc = "finish"
                  /\ cycle[p].result = "Ok"
                  /\ cycle'[p].pc = "returned"
                  /\ cycle'[p].result = "Ok"]_vars
    /\ [][\A p \in Callers :
            (cycle[p].pc # "returned" /\ cycle'[p].pc = "returned" /\ cycle'[p].result # "Ok")
            => last_sync' = last_sync]_vars

\* One call has returned Ok and set last_sync, the other one, turned away as
\* "already in progress", has returned too.
C24_Witness ==
    \E p, q \in Callers :
        /\ cycle[p].pc = "returned"
        /\ cycle[p].result = "Ok"
        /\ last_sync = 1
        /\ cycle[q].pc = "returned"
        /\ cycle[q].result = "AlreadySyncing"

\* C25: is_syncing is true only while some caller is inside its cycle; the
\* step in which a caller leaves its cycle, whatever the result, leaves
\* is_syncing false; a call of sync_now made while no caller is inside a cycle
\* is not turned away; and every caller inside a cycle gets to the return of
\* sync_now.
C25_GuardRelease ==
    /\ [](is_syncing => \E p \in Callers : Running(p))
    /\ [][\A p \in Callers :
            (Running(p) /\ ~Running(p)')
            => /\ ~is_syncing'
               /\ cycle'[p].pc = "returned"]_vars
    /\ [][\A p \in Callers :
            (/\ cycle[p].pc = (IF p = "scheduler" THEN "call" ELSE "idle")
             /\ cycle'[p].pc \in {"perform", "returned"}
             /\ \A q \in Callers : ~Running(q))
            => cycle'[p].pc = "perform"]_vars
    /\ \A p \in Callers : Running(p) ~> (cycle[p].pc = "returned")

\* One caller's cycle has ended with a remote error, and the other caller,
\* calling afterwards, is inside its cycle.
C25_Witness ==
    \E p, q \in Callers :
        /\ cycle[p].pc = "returned"
        /\ cycle[p].result = "Sync"
        /\ Running(q)

\* C26: the remote call a drain makes for an entry follows its
\* operation_type.  An "insert" that is accepted puts the payload into
\* table_name under record_id; an "update" that is accepted replaces the row
\* of table_name with that id, if there is one; a "delete" that is accepted
\* removes it; a call that is not accepted changes nothing, and no call
\* touches another table or id.  An entry of any other type gets no remote
\* call and the result Err, and the step that follows keeps the entry and adds
\* one to its attempts.
C26_CallFollowsOperationType ==
    [][\A p \in Callers :
         LET operation == cycle[p].operations[cycle[p].next]
             t == operation.table_name
             id == operation.record_id
             resp == cycle'[p].response
             known == operation.operation_type \in {"insert", "update", "delete"}
         IN  /\ (cycle[p].pc = "drain" /\ cycle'[p].pc = "ack" /\ known)
                => /\ resp # "none"
                   /\ \A t2 \in TableNames : \A id2 \in RowIds :
                        (t2 # t \/ id2 # id) => remote'[t2][id2] = remote[t2][id2]
                   /\ remote'[t][id] =
                        CASE resp # "success" -> remote[t][id]
                          [] operation.operation_type = "insert" -> operation.data
                          [] operation.operation_type = "update" ->
                                (IF remote[t][id] # 0 THEN operation.data ELSE 0)
                          [] operation.operation_type = "delete" -> 0
             /\ (cycle[p].pc = "drain" /\ cycle'[p].pc = "ack" /\ ~known)
                => /\ resp = "none"
                   /\ remote' = remote
                   /\ cycle'[p].outcome = "Err"
             /\ (cycle[p].pc = "ack" /\ cycle'[p].pc \in {"drain", "sweep"} /\ ~known)
                => \E i \in DOMAIN sync_queue :
                     /\ sync_queue[i].id = operation.id
                     /\ sync_queue' = [sync_queue EXCEPT ![i].attempts = @ + 1]]_vars

\* An entry of unknown type has got its Err without a remote call, in a batch
\* in which an insert into one table went through before and no other table
\* holds a row.
C26_Witness ==
    /\ cycle["manual"].pc = "ack"
    /\ cycle["manual"].operations[cycle["manual"].next].operation_type = "merge"
    /\ cycle["manual"].outcome = "Err"
    /\ cycle["manual"].response = "none"
    /\ \E t \in QueueTables :
         /\ remote[t][1] = 1
         /\ \A t2 \in TableNames \ {t} : remote[t2][1] = 0

\* C27: the sweep uploads and marks only rows that are dirty: at the step
\* that uploads a record, and at the step that marks it, the row with that id
\* has dirty = 1; and an upload that ends the sweep with an error leaves every
\* row as it was.
C27_SweepTouchesDirtyRowsOnly ==
    [][\A p \in Callers :
         LET record == Head(cycle[p].dirty_records)
         IN  /\ (cycle[p].pc = "upsert" /\ cycle'[p] # cycle[p])
                => /\ rows[record.id].dirty = 1
                   /\ cycle'[p].pc = "finish" => rows' = rows
             /\ (cycle[p].pc = "mark" /\ rows' # rows)
                => rows[record.id].dirty = 1]_vars

\* C28 as stated: a unit of work handed to execute before the connection was
\* set is never run, and when its call ends the result is the Database error.
C28_SubmittedEarlyNeverRuns ==
    \A u \in Units :
        work.early[u]
        => /\ work.pc[u] # "f"
           /\ work.pc[u] = "drop" => work.result[u] = "Database"

\* C28, amended: a unit of work for which execute, holding the lock, finds the
\* connection unset is not run and gets the Database error, nothing else
\* changing in that step, and f runs only with the connection set.  As long as
\* the connection is unset, last_sync, the queue, the rows and the remote
\* store are what they were at the start, a call of sync_now that has its
\* result has an error, is_syncing is true only while that call is inside, and
\* a call of execute that is about to return returns the Database error.
C28_UninitializedStore ==
    /\ [][\A u \in Units :
            (work.pc[u] = "match" /\ ~connection /\ work'.pc[u] # "match")
            => /\ work'.pc[u] = "drop"
               /\ work'.result[u] = "Database"
               /\ UNCHANGED <<sync_queue, queue_seq, rows, remote, stat, is_syncing, last_sync, online>>]_vars
    /\ [](\A u \in Units : work.pc[u] = "f" => connection)
    /\ [](~connection
          => /\ last_sync = 0
             /\ sync_queue = <<>>
             /\ queue_seq = [id |-> 0, at |-> 0]
             /\ rows = [r \in RowIds |-> NoRow]
             /\ remote = [t \in TableNames |-> [r \in RowIds |-> 0]]
             /\ is_syncing => \E p \in Callers : Running(p)
             /\ \A p \in Callers :
                  cycle[p].pc \in {"finish", "returned"} => cycle[p].result \in {"Offline", "Database"}
             /\ \A u \in Units : work.pc[u] = "drop" => work.result[u] = "Database")

\* With the store not yet opened, queue_operation is about to return the
\* Database error and sync_now, called with the connectivity flag on, has
\* returned it.
C28_Witness ==
    /\ ~connection
    /\ work.pc["queue_operation"] = "drop"
    /\ work.result["queue_operation"] = "Database"
    /\ cycle["manual"].pc = "returned"
    /\ cycle["manual"].result = "Database"
    /\ ~is_syncing

\* C29: the (is_syncing, last_sync) pair of a get_status result was the pair
\* of the two fields at one instant: a result that reports is_syncing = true
\* carries the last_sync there was while that cycle ran, not the one written
\* when that cycle completed.
C29_StatusSnapshot ==
    [][(stat.pc = "last_sync" /\ stat'.pc = "is_online" /\ stat.is_syncing)
       => stat'.last_sync = stat.seen]_vars

\* C30: the attempts of every queue entry are between 0 and 5; a step never
\* lowers the attempts of an entry that stays in the queue and adds at most 1
\* to them; and while a cycle runs, an entry of its batch has at most one
\* attempt more than when the batch was fetched, none more before its turn.
C30_AttemptsBound ==
    /\ [](\A i \in DOMAIN sync_queue : sync_queue[i].attempts \in 0..MaxAttempts)
    /\ [][\A i \in DOMAIN sync_queue : \A j \in DOMAIN sync_queue' :
            sync_queue'[j].id = sync_queue[i].id
            => /\ sync_queue'[j].attempts >= sync_queue[i].attempts
               /\ sync_queue'[j].attempts <= sync_queue[i].attempts + 1]_vars
    /\ [](\A p \in Callers :
            Running(p)
            => \A k \in DOMAIN cycle[p].operations :
                 \A e \in Entry(cycle[p].operations[k].id) :
                    /\ e.attempts <= cycle[p].operations[k].attempts + 1
                    /\ (cycle[p].pc \in {"drain", "ack"} /\ k >= cycle[p].next)
                       => e.attempts = cycle[p].operations[k].attempts)

\* A cycle has counted the fifth attempt of an entry of its batch and still
\* has another entry of the batch before it.
C30_Witness ==
    \E p \in Callers :
        /\ cycle[p].pc = "drain"
        /\ cycle[p].next > 1
        /\ \E e \in Entry(cycle[p].operations[1].id) :
             /\ e.attempts = MaxAttempts
             /\ cycle[p].operations[1].attempts = MaxAttempts - 1

\* C31: a step adds to the attempts of a queue entry only when the remote
\* call for that entry was sent and failed; in particular no step does so
\* while no remote client is configured.
C31_AttemptsCountRemoteFailures ==
    [][\A i \in DOMAIN sync_queue : \A j \in DOMAIN sync_queue' :
         (sync_queue'[j].id = sync_queue[i].id /\ sync_queue'[j].attempts > sync_queue[i].attempts)
         => /\ supabase
            /\ \E p \in Callers :
                 /\ cycle[p].pc = "ack"
                 /\ cycle[p].operations[cycle[p].next].id = sync_queue[i].id
                 /\ cycle[p].response = "unreachable"]_vars

\* C32: the connectivity flag changes only in a step of initialize, of
\* set_online or of the scheduler's probe; no step of sync_now, get_status,
\* queue_operation or a domain service changes it, whatever its remote call
\* returned; and the scheduler goes to probe only from a tick that read the
\* flag as false.
C32_OnlineFlagFrame ==
    /\ [][online' # online
          => \/ ~connection /\ connection'
             \/ /\ cycle["scheduler"].pc = "reconnect"
                /\ cycle'["scheduler"].pc \in {"call", "idle"}
                /\ online' = check_online
             \/ UNCHANGED <<connection, is_syncing, last_sync, sync_queue, queue_seq, rows, remote, cycle, req, stat, work>>]_vars
    /\ [][(cycle["scheduler"].pc # "reconnect" /\ cycle'["scheduler"].pc = "reconnect")
          => (~online /\ cycle["scheduler"].pc = "idle")]_vars
    /\ [][(\/ \E p \in Callers : cycle'[p] # cycle[p] /\ cycle[p].pc # "reconnect"
           \/ req' # req
           \/ stat' # stat
           \/ sync_queue' # sync_queue)
          => online' = online]_vars

\* A call of update_progress has come back with the error of its remote call,
\* and the connectivity flag is on.
C32_Witness ==
    /\ req.pc = "returned"
    /\ req.result = "Supabase"
    /\ online
    /\ req.op = "update_progress"

\* C33: with the connectivity flag on and the scheduler ticking, every queue
\* entry is in the end removed or at the attempt cap, also when more entries
\* are queued than one batch holds and the older ones fail every time: from
\* some point on the queue holds nothing but entries at the cap, no removed
\* entry comes back and no count goes down.  An entry whose remote call has
\* gone through is removed by the next step of the loop.
C33_QueueProgress ==
    /\ <>[](\A i \in DOMAIN sync_queue : sync_queue[i].attempts = MaxAttempts)
    /\ [][\A i \in DOMAIN sync_queue' :
            \/ sync_queue'[i].id > queue_seq.id
            \/ \E e \in Entry(sync_queue'[i].id) : e.attempts <= sync_queue'[i].attempts]_vars
    /\ [][\A p \in Callers :
            (cycle[p].pc = "ack" /\ cycle[p].outcome = "Ok" /\ cycle'[p] # cycle[p])
            => \A i \in DOMAIN sync_queue' :
                    sync_queue'[i].id # cycle[p].operations[cycle[p].next].id]_vars

\* More entries were queued than one batch holds; the older ones are all at
\* the cap and still in the queue, and the newest one is gone.
C33_Witness ==
    /\ queue_seq.id > BatchLimit
    /\ Len(sync_queue) = BatchLimit
    /\ \A i \in DOMAIN sync_queue : sync_queue[i].attempts = MaxAttempts
    /\ Entry(queue_seq.id) = {}

\* C34: a dirty row whose upload fails does not keep the other dirty rows of
\* the same table or of the later tables from being uploaded: when an upload
\* gets an error and another record of the batch, or a dirty row of a later
\* table, is still to come, the sweep goes on with it.
C34_SweepGoesOn ==
    [][\A p \in Callers :
         (/\ cycle[p].pc = "upsert"
          /\ cycle'[p] # cycle[p]
          /\ ~ExecuteIsOk(cycle'[p].response)
          /\ \/ Tail(cycle[p].dirty_records) # <<>>
             \/ \E id \in RowIds, k \in DOMAIN Tables :
                    k > cycle[p].table /\ rows[id].table = Tables[k] /\ rows[id].dirty = 1)
         => cycle'[p].pc \in {"upsert", "sweep"}]_vars

\* C35: every local row whose content the remote table does not hold has
\* dirty = 1, so that the sweep finds it.
C35_UnsyncedRowsAreDirty ==
    \A id \in RowIds :
        (rows[id] # NoRow /\ remote[rows[id].table][id] # rows[id].ver)
        => rows[id].dirty = 1

\* C36: semantic_chunk returns at least one chunk for every text that passes
\* validate_not_empty, also when the text is made only of characters that
\* sanitize_text removes.
C36_AtLeastOneChunk ==
    (doc.pc = "returned" /\ validate_not_empty(doc.text))
    => (doc.result.ok /\ Len(doc.result.chunks) >= 1)

\* C37: every HybridStorage in existence, the one inside the SyncManager
\* included, reads the same connectivity flag and the same connection, so
\* that a set_online through one holder is what is_online returns through
\* every holder; and every SyncManager in existence reads the same is_syncing
\* and the same last_sync.
C37_SharedState ==
    /\ [](\A h1, h2 \in Storages \cup Managers :
            (holders[h1] # NoHolder /\ holders[h2] # NoHolder)
            => /\ is_online(h1) = is_online(h2)
               /\ cells[holders[h1].connection] = cells[holders[h2].connection])
    /\ [](\A m1, m2 \in Managers :
            (holders[m1] # NoHolder /\ holders[m2] # NoHolder)
            => /\ cells[holders[m1].is_syncing] = cells[holders[m2].is_syncing]
               /\ cells[holders[m1].last_sync] = cells[holders[m2].last_sync])
    /\ [][\A h \in Storages \cup Managers, b \in BOOLEAN :
            set_online_by(h, b)
            => \A h2 \in Storages \cup Managers :
                 holders'[h2] # NoHolder => cells'[holders'[h2].online] = b]_vars

\* Without credentials the flag is on for a service's copy of the storage,
\* which only a set_online can have done; and the copy of the sync manager,
\* not inside sync_now itself, reads is_syncing as true and a last_sync that
\* has been written.
C37_Witness ==
    /\ ~supabase
    /\ holders["FlashcardService"] # NoHolder
    /\ is_online("FlashcardService")
    /\ holders["SyncManager.clone"] # NoHolder
    /\ holders["SyncManager.clone"].pc = "idle"
    /\ cells[holders["SyncManager.clone"].is_syncing]
    /\ cells[holders["SyncManager.clone"].last_sync] > 0

====
